---- MODULE Spec2Model ----
(***************************************************************************)
(* Model of the TypeScript namespace-import completion service             *)
(* (CompletionItemsServiceImpl and the resolver of uri_helpers.ts).        *)
(*                                                                         *)
(* Strings are sequences of one-character strings, so that the code's      *)
(* character-level operations (startsWith, includes, slice, replace,       *)
(* path.resolve, path.relative, extname, camelCase) are computed as the    *)
(* code computes them.                                                     *)
(***************************************************************************)
EXTENDS Integers, Sequences, FiniteSets, TLC

(***************************************************************************)
(* JavaScript string helpers                                               *)
(***************************************************************************)

\* the value null of the source (never a string of the model)
Null == <<"NULL">>

\* the value null where the source expects the paths object (never the
\* entries of an object)
NullPaths == << <<"NULL">> >>

\* String.prototype.startsWith
startsWith(s, pre) ==
    /\ Len(pre) <= Len(s)
    /\ SubSeq(s, 1, Len(pre)) = pre

\* String.prototype.endsWith
endsWith(s, suf) ==
    /\ Len(suf) <= Len(s)
    /\ SubSeq(s, Len(s) - Len(suf) + 1, Len(s)) = suf

\* String.prototype.includes
includes(s, sub) ==
    \E i \in 1..(Len(s) + 1) :
        /\ i + Len(sub) - 1 <= Len(s)
        /\ SubSeq(s, i, i + Len(sub) - 1) = sub

\* s.slice(n): the string without its first n characters
sliceFrom(s, n) == SubSeq(s, n + 1, Len(s))

\* index of the first occurrence of character c in s, 0 when absent
indexOfChar(s, c) ==
    IF \E i \in 1..Len(s) : s[i] = c
    THEN CHOOSE i \in 1..Len(s) : s[i] = c /\ \A j \in 1..(i - 1) : s[j] # c
    ELSE 0

\* index of the last occurrence of character c in s, 0 when absent
lastIndexOfChar(s, c) ==
    IF \E i \in 1..Len(s) : s[i] = c
    THEN CHOOSE i \in 1..Len(s) : s[i] = c /\ \A j \in (i + 1)..Len(s) : s[j] # c
    ELSE 0

\* s.replace('*', ''): the first star removed (a string pattern replaces once)
replaceStar(s) ==
    LET i == indexOfChar(s, "*")
    IN  IF i = 0 THEN s ELSE SubSeq(s, 1, i - 1) \o SubSeq(s, i + 1, Len(s))

\* u.firstChar: value.slice(0, 1)
firstChar(value) == SubSeq(value, 1, 1)

(***************************************************************************)
(* Node's posix path module, as used by the source                         *)
(***************************************************************************)

RECURSIVE splitSegs(_)
\* s.split('/') as a sequence of segments (empty segments kept)
splitSegs(s) ==
    LET i == indexOfChar(s, "/")
    IN  IF i = 0 THEN <<s>>
        ELSE <<SubSeq(s, 1, i - 1)>> \o splitSegs(SubSeq(s, i + 1, Len(s)))

RECURSIVE joinSegs(_)
\* segments joined by '/'
joinSegs(segs) ==
    IF Len(segs) = 0 THEN <<>>
    ELSE IF Len(segs) = 1 THEN segs[1]
    ELSE segs[1] \o <<"/">> \o joinSegs(Tail(segs))

RECURSIVE normSegs(_, _)
\* normalisation of the segments of an absolute path: '' and '.' are
\* dropped, '..' removes the segment before it (and nothing at the root)
normSegs(segs, acc) ==
    IF Len(segs) = 0 THEN acc
    ELSE LET h == Head(segs)
         IN  IF h = <<>> \/ h = <<".">> THEN normSegs(Tail(segs), acc)
             ELSE IF h = <<".", ".">>
             THEN normSegs(Tail(segs),
                           IF Len(acc) = 0 THEN acc ELSE SubSeq(acc, 1, Len(acc) - 1))
             ELSE normSegs(Tail(segs), Append(acc, h))

\* path.isAbsolute
isAbsolute(p) == Len(p) > 0 /\ p[1] = "/"

\* the normalised segments of path.resolve(from, to), from being absolute
resolveSegs(from, to) ==
    IF isAbsolute(to) THEN normSegs(splitSegs(to), <<>>)
    ELSE normSegs(splitSegs(from) \o splitSegs(to), <<>>)

\* path.resolve(from, to) for an absolute from
resolve(from, to) == <<"/">> \o joinSegs(resolveSegs(from, to))

RECURSIVE commonLen(_, _)
\* number of leading segments two segment lists share
commonLen(a, b) ==
    IF Len(a) = 0 \/ Len(b) = 0 \/ Head(a) # Head(b) THEN 0
    ELSE 1 + commonLen(Tail(a), Tail(b))

\* path.relative(from, to) for absolute paths: '..' for every segment of
\* from below the common ancestor, then the rest of to; '' when equal
relativeSegs(f, t) ==
    LET k == commonLen(f, t)
        ups == [i \in 1..(Len(f) - k) |-> <<".", ".">>]
    IN  joinSegs(ups \o SubSeq(t, k + 1, Len(t)))

\* path.relative(from, to): the two paths normalised, then compared
relative(from, to) ==
    relativeSegs(normSegs(splitSegs(from), <<>>), normSegs(splitSegs(to), <<>>))

\* path.dirname of an absolute path without trailing slash
dirname(p) ==
    LET i == lastIndexOfChar(p, "/")
    IN  IF i <= 1 THEN <<"/">> ELSE SubSeq(p, 1, i - 1)

\* path.basename(p)
basename(p) == SubSeq(p, lastIndexOfChar(p, "/") + 1, Len(p))

\* path.basename(p, ext): the extension is removed when the base name ends
\* with it and is not the extension itself
basenameExt(p, ext) ==
    LET b == basename(p)
    IN  IF endsWith(b, ext) /\ b # ext THEN SubSeq(b, 1, Len(b) - Len(ext)) ELSE b

\* path.extname: from the last '.' of the base name, '' when there is none
\* or when that dot is the first character of the base name
extname(p) ==
    LET b == basename(p)
        i == lastIndexOfChar(b, ".")
    IN  IF i <= 1 THEN <<>> ELSE SubSeq(b, i, Len(b))

\* the path returned with its extension
keepingExt(path) == path

\* u.pathWithoutExt
pathWithoutExt(path) == SubSeq(path, 1, Len(path) - Len(extname(path)))

(***************************************************************************)
(* lodash camelCase on the characters used for file names: lower-case      *)
(* letters are word characters, every other character separates words.     *)
(***************************************************************************)

LowerLetters == <<"a","b","c","d","e","f","g","h","i","j","k","l","m",
                  "n","o","p","q","r","s","t","u","v","w","x","y","z">>

UpperLetters == <<"A","B","C","D","E","F","G","H","I","J","K","L","M",
                  "N","O","P","Q","R","S","T","U","V","W","X","Y","Z">>

isLetter(c) == \E i \in 1..26 : LowerLetters[i] = c

upperChar(c) == UpperLetters[CHOOSE i \in 1..26 : LowerLetters[i] = c]

\* the word with its first letter in upper case
upperFirst(w) == <<upperChar(w[1])>> \o Tail(w)

RECURSIVE words(_, _)
\* the maximal runs of letters of s, in order; run is the run being read
words(s, run) ==
    IF Len(s) = 0 THEN (IF Len(run) = 0 THEN <<>> ELSE <<run>>)
    ELSE IF isLetter(Head(s)) THEN words(Tail(s), Append(run, Head(s)))
    ELSE (IF Len(run) = 0 THEN <<>> ELSE <<run>>) \o words(Tail(s), <<>>)

RECURSIVE camelJoin(_, _)
\* the first word as it is, every later word with its first letter raised
camelJoin(ws, first) ==
    IF Len(ws) = 0 THEN <<>>
    ELSE (IF first THEN Head(ws) ELSE upperFirst(Head(ws))) \o camelJoin(Tail(ws), FALSE)

camelCase(s) == camelJoin(words(s, <<>>), TRUE)

(***************************************************************************)
(* uri_helpers.ts: the resolver                                            *)
(***************************************************************************)

Ts == <<"t", "s">>
DotTs == <<".", "t", "s">>
DotTsx == <<".", "t", "s", "x">>

\* makeModuleName
makeModuleName(uriPath) ==
    camelCase(basenameExt(uriPath, IF endsWith(uriPath, Ts) THEN DotTs ELSE DotTsx))

\* the decimal digits
Digits == <<"0", "1", "2", "3", "4", "5", "6", "7", "8", "9">>
isDigit(c) == \E i \in DOMAIN Digits : Digits[i] = c

RECURSIVE indexValue(_)
\* the number a string of digits writes
indexValue(key) ==
    IF Len(key) = 0 THEN 0
    ELSE indexValue(SubSeq(key, 1, Len(key) - 1)) * 10
         + (CHOOSE i \in DOMAIN Digits : Digits[i] = key[Len(key)]) - 1

\* a property key that is an array index to the engine: the canonical
\* decimal form of a non-negative integer (keys of up to nine digits; the
\* largest array index has ten)
isArrayIndex(key) ==
    /\ Len(key) \in 1..9
    /\ \A i \in DOMAIN key : isDigit(key[i])
    /\ Len(key) = 1 \/ key[1] # "0"

RECURSIVE insertByIndex(_, _)
\* an entry put into the entries sorted by the value of their key
insertByIndex(sorted, entry) ==
    IF Len(sorted) = 0 THEN <<entry>>
    ELSE IF indexValue(Head(sorted)[1]) <= indexValue(entry[1])
    THEN <<Head(sorted)>> \o insertByIndex(Tail(sorted), entry)
    ELSE <<entry>> \o sorted

RECURSIVE sortByIndex(_, _)
sortByIndex(entries, acc) ==
    IF Len(entries) = 0 THEN acc
    ELSE sortByIndex(Tail(entries), insertByIndex(acc, Head(entries)))

\* Object.entries(obj), Object.keys(obj) for an object whose properties were
\* created in the order given: the keys that are array indices first, in
\* ascending order, then the other keys in the order of their creation
objectEntries(entries) ==
    LET indexKey(entry) == isArrayIndex(entry[1])
        otherKey(entry) == ~isArrayIndex(entry[1])
    IN  sortByIndex(SelectSeq(entries, indexKey), <<>>) \o SelectSeq(entries, otherKey)

\* the entries of Object.entries(paths) flattened into the (pattern,
\* mapping) pairs in the order the two nested loops visit them
RECURSIVE pathPairs(_)
pathPairs(paths) ==
    IF Len(paths) = 0 THEN <<>>
    ELSE [i \in 1..Len(paths[1][2]) |-> <<paths[1][1], paths[1][2][i]>>]
         \o pathPairs(Tail(paths))

\* the two branches of the inner loop of matchPathPatternForProject for a
\* mapping already made relative to the workspace folder
matchMapping(pattern, workspaceRelativeMapping, moduleRelativePath) ==
    IF includes(pattern, <<"*">>)
    THEN LET patternPrefix == replaceStar(pattern)
             mappingPrefix == replaceStar(workspaceRelativeMapping)
         IN  IF startsWith(moduleRelativePath, mappingPrefix)
             THEN patternPrefix \o sliceFrom(moduleRelativePath, Len(mappingPrefix))
             ELSE Null
    ELSE IF moduleRelativePath = workspaceRelativeMapping THEN pattern
    ELSE Null

\* one iteration of the inner loop of matchPathPatternForProject:
\* the import path the pair gives for the module, Null when it does not match
matchPair(pattern, mapping, basePath, workspaceFolderPath, moduleRelativePath) ==
    matchMapping(pattern,
                 relative(workspaceFolderPath, resolve(basePath, mapping)),
                 moduleRelativePath)

\* the return inside the loops: the first match ends them
firstNonNull(m, rest) == IF m # Null THEN m ELSE rest

RECURSIVE firstMatch(_, _, _, _)
\* the loops of matchPathPatternForProject: the first pair that matches wins
firstMatch(pairs, basePath, workspaceFolderPath, moduleRelativePath) ==
    IF Len(pairs) = 0 THEN Null
    ELSE firstNonNull(
            matchPair(pairs[1][1], pairs[1][2], basePath,
                      workspaceFolderPath, moduleRelativePath),
            firstMatch(Tail(pairs), basePath, workspaceFolderPath, moduleRelativePath))

\* matchPathPatternForProject
matchPathPatternForProject(tsProjectPath, tsProject, moduleUri) ==
    IF tsProject.tsConfigJson.paths = NullPaths THEN Null
    ELSE LET workspaceFolderPath == tsProject.workspaceFolder
             moduleRelativePath == relative(workspaceFolderPath, moduleUri)
             baseUrl == IF tsProject.tsConfigJson.baseUrl = Null
                        THEN <<".">> ELSE tsProject.tsConfigJson.baseUrl
             basePath == resolve(tsProjectPath, baseUrl)
         IN  firstMatch(pathPairs(objectEntries(tsProject.tsConfigJson.paths)), basePath,
                        workspaceFolderPath, moduleRelativePath)

\* a check that finds no conflict with the paths mapping
neverConflicts(moduleRelativePath, tsConfigJson) == FALSE

\* doesImportPathViaBaseUrlConflictWithPathsMapping
doesImportPathViaBaseUrlConflictWithPathsMapping(moduleRelativePath, tsConfigJson) ==
    IF tsConfigJson.paths = NullPaths THEN FALSE
    ELSE \E i \in 1..Len(tsConfigJson.paths) :
            startsWith(moduleRelativePath, replaceStar(tsConfigJson.paths[i][1]))

\* makeBareImportPath trying the baseUrl before the path that the paths
\* mapping matched
bareImportPathBaseUrlFirst(matchedPath, tsProjectPath, tsProject, moduleUri) ==
    IF /\ tsProject.tsConfigJson.baseUrl # Null
       /\ startsWith(moduleUri, resolve(tsProjectPath, tsProject.tsConfigJson.baseUrl))
       /\ ~doesImportPathViaBaseUrlConflictWithPathsMapping(
                relative(resolve(tsProjectPath, tsProject.tsConfigJson.baseUrl), moduleUri),
                tsProject.tsConfigJson)
    THEN pathWithoutExt(
            relative(resolve(tsProjectPath, tsProject.tsConfigJson.baseUrl), moduleUri))
    ELSE IF matchedPath # Null THEN pathWithoutExt(matchedPath)
    ELSE Null

\* makeBareImportPath after its call of matchPathPatternForProject
bareImportPathFrom(matchedPath, tsProjectPath, tsProject, moduleUri) ==
    IF matchedPath # Null THEN pathWithoutExt(matchedPath)
    ELSE IF tsProject.tsConfigJson.baseUrl # Null
    THEN LET baseUrlPath == resolve(tsProjectPath, tsProject.tsConfigJson.baseUrl)
             moduleRelativePath == relative(baseUrlPath, moduleUri)
         IN  IF /\ startsWith(moduleUri, baseUrlPath)
                /\ ~doesImportPathViaBaseUrlConflictWithPathsMapping(
                        moduleRelativePath, tsProject.tsConfigJson)
             THEN pathWithoutExt(moduleRelativePath)
             ELSE Null
    ELSE Null

\* makeBareImportPath
makeBareImportPath(tsProjectPath, tsProject, moduleUri) ==
    bareImportPathFrom(matchPathPatternForProject(tsProjectPath, tsProject, moduleUri),
                       tsProjectPath, tsProject, moduleUri)

\* the outcomes of evaluateModuleForTsProject without the relative import:
\* a module without bare import path is not importable
moduleEvaluationBareOnly(moduleName, bareImportPath, tsProjectPath, moduleUri) ==
    IF bareImportPath # Null
    THEN [type |-> "bareImport", moduleName |-> moduleName, importPath |-> bareImportPath]
    ELSE [type |-> "importDisallowed"]

\* the three outcomes of evaluateModuleForTsProject, given the module name
\* and the bare import path it computed
moduleEvaluation(moduleName, bareImportPath, tsProjectPath, moduleUri) ==
    IF bareImportPath # Null
    THEN [type |-> "bareImport", moduleName |-> moduleName, importPath |-> bareImportPath]
    ELSE IF startsWith(moduleUri, tsProjectPath)
    THEN [type |-> "relativeImport", moduleName |-> moduleName]
    ELSE [type |-> "importDisallowed"]

\* evaluateModuleForTsProject
evaluateModuleForTsProject(tsProjectPath, tsProject, moduleUri) ==
    moduleEvaluation(makeModuleName(moduleUri),
                     makeBareImportPath(tsProjectPath, tsProject, moduleUri),
                     tsProjectPath, moduleUri)

\* a maximum that keeps the first candidate whatever the lengths
firstCandidate(items, current) == current

\* u.max with the comparison by string length: the first of the longest
RECURSIVE maxByLength(_, _)
maxByLength(items, current) ==
    IF Len(items) = 0 THEN current
    ELSE maxByLength(Tail(items),
                     IF Len(current) < Len(Head(items)) THEN Head(items) ELSE current)

\* the directory of the file taken for its owner, whether or not it is the
\* root of a project
ownerIsContainingDirectory(uriPath, tsProjectPaths) == dirname(uriPath)

\* findOwnerTsProjectForTsFile; tsProjectPaths is the sequence of keys
findOwnerTsProjectForTsFile(uriPath, tsProjectPaths) ==
    LET isCandidate(tsProjectPath) == startsWith(uriPath, tsProjectPath)
        candidates == SelectSeq(tsProjectPaths, isCandidate)
    IN  IF Len(candidates) = 0 THEN Null
        ELSE maxByLength(Tail(candidates), Head(candidates))


(***************************************************************************)
(* The world of the model: two workspace folders, the places where a       *)
(* tsconfig.json may lie with the contents it may have, and the files      *)
(* that may exist.                                                         *)
(***************************************************************************)

TsConfigName == <<"t", "s", "c", "o", "n", "f", "i", "g", ".", "j", "s", "o", "n">>
NodeModulesSlash == <<"n", "o", "d", "e", "_", "m", "o", "d", "u", "l", "e", "s", "/">>
NodeModules == <<"n", "o", "d", "e", "_", "m", "o", "d", "u", "l", "e", "s">>

\* workspace folders (their uri.path); the name of a folder is its base name
WsPath == <<"/", "w", "s">>
W2Path == <<"/", "w", "2">>
FolderSeq == <<WsPath, W2Path>>
Folders == {FolderSeq[i] : i \in 1..Len(FolderSeq)}
folderName(folder) == basename(folder)

\* directories that may hold a tsconfig.json
ProjA == <<"/", "w", "s", "/", "a">>
\* the build-output directory of the project at /ws
ProjDist == <<"/", "w", "s", "/", "d", "i", "s", "t">>
CfgLocSeq == <<WsPath, ProjA, ProjDist, W2Path>>
CfgLocs == {CfgLocSeq[i] : i \in 1..Len(CfgLocSeq)}

\* tsconfig contents: compilerOptions.baseUrl, .paths (its entries in the
\* order the file writes them) and .outDir, each Null when the key is absent
CfgAlias ==
    [baseUrl |-> Null,
     paths |-> << << <<"@", "/", "*">>,
                     << <<"s", "r", "c", "/", "*">>, <<"d", "i", "s", "t", "/", "*">> >> >> >>,
     outDir |-> <<"d", "i", "s", "t">>]
CfgPlain == [baseUrl |-> Null, paths |-> NullPaths, outDir |-> Null]
CfgBase == [baseUrl |-> <<".">>, paths |-> NullPaths, outDir |-> Null]

\* the contents a tsconfig.json at a location may have
CfgChoices(loc) ==
    IF loc = WsPath THEN {CfgAlias, CfgPlain}
    ELSE IF loc = ProjA THEN {CfgBase}
    ELSE {CfgPlain}

\* files
FileFooBar == <<"/", "w", "s", "/", "s", "r", "c", "/", "f", "o", "o", "_", "b", "a", "r", ".", "t", "s">>
FileAX == <<"/", "w", "s", "/", "a", "/", "x", ".", "t", "s">>
FileAbY == <<"/", "w", "s", "/", "a", "b", "/", "y", ".", "t", "s">>
FileDistZ == <<"/", "w", "s", "/", "d", "i", "s", "t", "/", "z", ".", "t", "s">>
FileDistxV == <<"/", "w", "s", "/", "d", "i", "s", "t", "x", "/", "v", ".", "t", "s">>
FileW2K == <<"/", "w", "2", "/", "k", ".", "t", "s">>
\* a file without extension next to foo_bar.ts
FilePlainFoo == <<"/", "w", "s", "/", "s", "r", "c", "/", "f", "o", "o">>
\* a file in a directory whose name has a dot
FileV1Q == <<"/", "w", "s", "/", "v", ".", "1", "/", "q", ".", "t", "s">>
FileSeq == <<FileFooBar, FileAX, FileAbY, FileDistZ, FileDistxV, FileW2K, FilePlainFoo, FileV1Q>>
AllFiles == {FileSeq[i] : i \in 1..Len(FileSeq)}

\* directories whose removal is reported as one deleted path
DirSrc == <<"/", "w", "s", "/", "s", "r", "c">>
DirV1 == <<"/", "w", "s", "/", "v", ".", "1">>
\* the directory beside the build-output directory /ws/dist
DirDistx == <<"/", "w", "s", "/", "d", "i", "s", "t", "x">>
DirSeq == <<ProjA, DirSrc, DirV1, DirDistx, ProjDist>>
Dirs == {DirSeq[i] : i \in 1..Len(DirSeq)}

\* path p lies inside directory d (d is a proper ancestor directory of p)
isUnder(p, d) == startsWith(p, d \o <<"/">>)

\* the tsconfig.json of a project directory
tsconfigAt(loc) == loc \o <<"/">> \o TsConfigName

\* query texts
QuerySeq == << <<"f", "o">>, <<"x">>, <<"y">> >>
Queries == {QuerySeq[i] : i \in 1..Len(QuerySeq)}


(***************************************************************************)
(* completion_items_service: the data of a workspace and the pure parts    *)
(* of its operations.  A Map is a function whose domain is its key set;    *)
(* the insertion order of tsProjectByPath is kept beside it (order).       *)
(***************************************************************************)

\* Map.set
mapSet(m, k, v) == [x \in (DOMAIN m) \cup {k} |-> IF x = k THEN v ELSE m[x]]

\* Map.delete
mapDelete(m, k) == [x \in (DOMAIN m) \ {k} |-> m[x]]

\* an empty Map
EmptyMap == [x \in {} |-> x]

\* u.map.getOrCreate(map, key, () => []).push(rec)
getOrCreatePush(m, key, rec) ==
    IF key \in DOMAIN m THEN [m EXCEPT ![key] = Append(@, rec)]
    ELSE mapSet(m, key, <<rec>>)

\* isTsFile
isTsFile(uriPath) == endsWith(uriPath, DotTs) \/ endsWith(uriPath, DotTsx)

\* getAbsoluteOutDir
getAbsoluteOutDir(tsProjectPath, tsConfigJson) ==
    IF tsConfigJson.outDir = Null THEN Null
    ELSE IF isAbsolute(tsConfigJson.outDir) THEN tsConfigJson.outDir
    ELSE resolve(tsProjectPath, tsConfigJson.outDir)

\* a test that finds no file in a build-output directory
neverInOutDir(uriPath, tsProjectByPath) == FALSE

\* isFileInOutDir
isFileInOutDir(uriPath, tsProjectByPath) ==
    \E tsProjectPath \in DOMAIN tsProjectByPath :
        LET outDir == getAbsoluteOutDir(tsProjectPath,
                                        tsProjectByPath[tsProjectPath].tsConfigJson)
        IN  outDir # Null /\ startsWith(uriPath, outDir)

\* the switch that adds one file to one project filing a bare import under
\* the first character of its import path
addEvaluatedByImportPath(evalResult, tsProject, uriPath) ==
    IF evalResult.type = "bareImport"
    THEN [tsProject EXCEPT !.modulesForBareImportByQueryFirstChar =
            getOrCreatePush(@, firstChar(evalResult.importPath),
                [moduleName |-> evalResult.moduleName,
                 importPath |-> evalResult.importPath,
                 tsFilePath |-> uriPath])]
    ELSE IF evalResult.type = "relativeImport"
    THEN [tsProject EXCEPT !.modulesForRelativeImportByQueryFirstChar =
            getOrCreatePush(@, firstChar(evalResult.moduleName),
                [moduleName |-> evalResult.moduleName,
                 tsFilePath |-> uriPath])]
    ELSE tsProject

\* the body of the switch that adds one file to one project
\* (handleFileCreatedAsync and makeWorkspaceAsync share it)
addEvaluated(evalResult, tsProject, uriPath) ==
    IF evalResult.type = "bareImport"
    THEN [tsProject EXCEPT !.modulesForBareImportByQueryFirstChar =
            getOrCreatePush(@, firstChar(evalResult.moduleName),
                [moduleName |-> evalResult.moduleName,
                 importPath |-> evalResult.importPath,
                 tsFilePath |-> uriPath])]
    ELSE IF evalResult.type = "relativeImport"
    THEN [tsProject EXCEPT !.modulesForRelativeImportByQueryFirstChar =
            getOrCreatePush(@, firstChar(evalResult.moduleName),
                [moduleName |-> evalResult.moduleName,
                 tsFilePath |-> uriPath])]
    ELSE tsProject

\* one file evaluated for one project and added to it
addModule(tsProjectPath, tsProject, uriPath) ==
    addEvaluated(evaluateModuleForTsProject(tsProjectPath, tsProject, uriPath),
                 tsProject, uriPath)

RECURSIVE addModulesBelowRootOnly(_, _, _)
\* the inner loop of makeWorkspaceAsync adding to a project only the files
\* below its own directory
addModulesBelowRootOnly(tsProjectPath, tsProject, uris) ==
    IF Len(uris) = 0 THEN tsProject
    ELSE addModulesBelowRootOnly(tsProjectPath,
            IF startsWith(Head(uris), tsProjectPath \o <<"/">>)
            THEN addModule(tsProjectPath, tsProject, Head(uris)) ELSE tsProject,
            Tail(uris))

RECURSIVE addModules(_, _, _)
\* the inner loop of makeWorkspaceAsync over the enumerated files
addModules(tsProjectPath, tsProject, uris) ==
    IF Len(uris) = 0 THEN tsProject
    ELSE addModules(tsProjectPath, addModule(tsProjectPath, tsProject, Head(uris)),
                    Tail(uris))

\* a bucket without the records that have the module name of one file
withoutModuleName(modules, uriPath) ==
    LET keep(module) == module.moduleName # makeModuleName(uriPath)
    IN  SelectSeq(modules, keep)

\* a bucket without the records of one file
withoutFile(modules, uriPath) ==
    LET keep(module) == module.tsFilePath # uriPath
    IN  SelectSeq(modules, keep)

\* the body of the switch that removes one file from one project
\* (handleFileDeletedAsync, ordinary file)
removeEvaluated(evalResult, tsProject, uriPath) ==
    LET key == firstChar(evalResult.moduleName)
    IN  IF evalResult.type = "bareImport"
        THEN IF key \in DOMAIN tsProject.modulesForBareImportByQueryFirstChar
             THEN [tsProject EXCEPT !.modulesForBareImportByQueryFirstChar[key] =
                        withoutFile(@, uriPath)]
             ELSE tsProject
        ELSE IF evalResult.type = "relativeImport"
        THEN IF key \in DOMAIN tsProject.modulesForRelativeImportByQueryFirstChar
             THEN [tsProject EXCEPT !.modulesForRelativeImportByQueryFirstChar[key] =
                        withoutFile(@, uriPath)]
             ELSE tsProject
        ELSE tsProject

\* one file evaluated for one project and removed from it
removeModule(tsProjectPath, tsProject, uriPath) ==
    removeEvaluated(evaluateModuleForTsProject(tsProjectPath, tsProject, uriPath),
                    tsProject, uriPath)

\* every bucket of an index without the records whose file path starts
\* with the deleted path
withoutPrefix(index, uriPath) ==
    LET keep(module) == ~startsWith(module.tsFilePath, uriPath)
    IN  [key \in DOMAIN index |-> SelectSeq(index[key], keep)]

\* a created file added to the projects without its entry in the owner map
fileCreatedWithoutOwner(workspace, uriPath) ==
    [workspace EXCEPT
        !.tsProjectByPath =
            [tsProjectPath \in DOMAIN @ |->
                addModule(tsProjectPath, @[tsProjectPath], uriPath)]]

\* the ordinary-file part of handleFileCreatedAsync, on a workspace that
\* passed checkChangedFileAndGetWorkspace
fileCreated(workspace, uriPath) ==
    LET ownerTsProjectPath == findOwnerTsProjectForTsFile(uriPath, workspace.order)
    IN  [workspace EXCEPT
            !.tsProjectByPath =
                [tsProjectPath \in DOMAIN @ |->
                    addModule(tsProjectPath, @[tsProjectPath], uriPath)],
            !.ownerTsProjectPathByTsFilePath =
                IF ownerTsProjectPath = Null THEN @
                ELSE mapSet(@, uriPath, ownerTsProjectPath)]

\* the ordinary-file part of handleFileDeletedAsync
fileDeleted(workspace, uriPath) ==
    [workspace EXCEPT
        !.tsProjectByPath =
            [tsProjectPath \in DOMAIN @ |->
                removeModule(tsProjectPath, @[tsProjectPath], uriPath)],
        !.ownerTsProjectPathByTsFilePath = mapDelete(@, uriPath)]

\* the directory part of handleFileDeletedAsync when no project root starts
\* with the deleted path
directoryDeleted(workspace, uriPath) ==
    [workspace EXCEPT
        !.tsProjectByPath =
            [tsProjectPath \in DOMAIN @ |->
                [@[tsProjectPath] EXCEPT
                    !.modulesForBareImportByQueryFirstChar = withoutPrefix(@, uriPath),
                    !.modulesForRelativeImportByQueryFirstChar = withoutPrefix(@, uriPath)]],
        !.ownerTsProjectPathByTsFilePath =
            [tsFilePath \in {k \in DOMAIN @ : ~startsWith(k, uriPath)} |-> @[tsFilePath]]]

\* the depth key of the sort of discoverTsConfigJsonsAsync
depthKey(x) == 0 - Len(splitSegs(x.tsProjectPath))

RECURSIVE insertSorted(_, _)
\* x put behind every element whose key is not larger (a stable sort)
insertSorted(sorted, x) ==
    IF Len(sorted) = 0 THEN <<x>>
    ELSE IF depthKey(Head(sorted)) <= depthKey(x)
    THEN <<Head(sorted)>> \o insertSorted(Tail(sorted), x)
    ELSE <<x>> \o sorted

RECURSIVE sortByDepth(_, _)
\* u.sort(tsConfigJsonWithPaths, by -depth): deepest first, stable
sortByDepth(items, acc) ==
    IF Len(items) = 0 THEN acc
    ELSE sortByDepth(Tail(items), insertSorted(acc, Head(items)))

\* what the exclude glob {**/node_modules/**,<outDir>/**,...} of
\* makeWorkspaceAsync leaves out: a file below a directory named
\* node_modules, or below the build-output directory of a project
globExcluded(workspaceFolder, tsConfigJsonWithPaths, uriPath) ==
    \/ \E i \in 1..(Len(splitSegs(dirname(uriPath)))) :
            splitSegs(dirname(uriPath))[i] = NodeModules
    \/ \E i \in 1..Len(tsConfigJsonWithPaths) :
            LET folder == getAbsoluteOutDir(tsConfigJsonWithPaths[i].tsProjectPath,
                                            tsConfigJsonWithPaths[i].tsConfigJson)
            IN  /\ folder # Null
                /\ isUnder(folder \o <<"/">>, workspaceFolder)
                /\ isUnder(uriPath, folder)

\* makeWorkspaceAsync after its awaits: the workspace built from the
\* configurations read (sorted) and the files enumerated
makeWorkspace(workspaceFolder, tsConfigJsonWithPaths, uris) ==
    LET order == [i \in 1..Len(tsConfigJsonWithPaths) |->
                    tsConfigJsonWithPaths[i].tsProjectPath]
        configAt(tsProjectPath) ==
            tsConfigJsonWithPaths[CHOOSE i \in 1..Len(order) :
                /\ order[i] = tsProjectPath
                /\ \A j \in (i + 1)..Len(order) : order[j] # tsProjectPath].tsConfigJson
        owned == {i \in 1..Len(uris) : findOwnerTsProjectForTsFile(uris[i], order) # Null}
    IN  [workspaceFolder |-> workspaceFolder,
         order |-> order,
         tsProjectByPath |->
            [tsProjectPath \in {order[i] : i \in 1..Len(order)} |->
                addModules(tsProjectPath,
                    [tsConfigJson |-> configAt(tsProjectPath),
                     workspaceFolder |-> workspaceFolder,
                     modulesForBareImportByQueryFirstChar |-> EmptyMap,
                     modulesForRelativeImportByQueryFirstChar |-> EmptyMap],
                    uris)],
         ownerTsProjectPathByTsFilePath |->
            [tsFilePath \in {uris[i] : i \in owned} |->
                findOwnerTsProjectForTsFile(tsFilePath, order)]]


(***************************************************************************)
(* Bounds of the model                                                     *)
(***************************************************************************)

\* calls of the service (events delivered, queries) in one run when the
\* host delivers events while builds are in flight
MaxEvents == 2
\* the same when the host delivers each event after the build started by
\* the one before has completed
MaxSerialEvents == 3
\* builds (resets, workspace-folder changes) in flight at once
MaxTasks == 2
\* failures of the editor's file search or document read in one run
MaxFaults == 1

\* identities of the Map objects held by this.workspaceByName and by the
\* builds in flight
MapIds == 0..(MaxTasks + 1)

(***************************************************************************)
(* State                                                                   *)
(***************************************************************************)

VARIABLES
    files,          \* the files on disk
    cfgs,           \* the tsconfig.json on disk: directory -> contents
    editorFolders,  \* vscode.workspace.workspaceFolders
    maps,           \* the Map objects: identity -> (folder name -> Workspace)
    cur,            \* this.workspaceByName (the identity of a Map)
    tasks,          \* the calls of updateWorkspaceByNameInPlaceAsync in
                    \* flight, in the order they started
    qres,           \* the last call of getModulesForCompletion and its result
    last,           \* the last two events delivered
    serial,         \* the host waits for the builds in flight to complete
                    \* before it delivers an event
    nev,            \* calls of the service so far
    nfault,         \* failures so far
    call,           \* a call of a function of uri_helpers.ts on its own
    ret             \* what that call returned

vars == <<files, cfgs, editorFolders, maps, cur, tasks, qres, last, serial, nev, nfault,
          call, ret>>

\* the variables of the service
service == <<files, cfgs, editorFolders, maps, cur, tasks, qres, last, serial, nev, nfault>>

\* the variables of a call of a pure function
pure == <<call, ret>>

\* the sequence of the members of a set of files, folders or directories
seqOf(universe, set) ==
    LET member(x) == x \in set
    IN  SelectSeq(universe, member)

\* vscode.workspace.getWorkspaceFolder via getWorkspaceFolderFromUri: the
\* innermost workspace folder holding the path, Null when there is none
getWorkspaceFolderFromUri(uriPath) ==
    LET holding == {f \in editorFolders : uriPath = f \/ isUnder(uriPath, f)}
    IN  IF holding = {} THEN Null
        ELSE CHOOSE f \in holding : \A g \in holding : Len(g) <= Len(f)

\* checkChangedFileAndGetWorkspace refusing a path while a build is in
\* flight, where the workspace installed should be returned
checkWhenNoBuildInFlight(workspaceByName, uriPath) ==
    LET workspaceFolder == getWorkspaceFolderFromUri(uriPath)
    IN  IF Len(tasks) > 0 THEN [ok |-> FALSE, err |-> "building"]
        ELSE IF workspaceFolder = Null THEN [ok |-> FALSE, err |-> "no folder"]
        ELSE IF folderName(workspaceFolder) \notin DOMAIN workspaceByName
        THEN [ok |-> FALSE, err |-> "no workspace"]
        ELSE IF \/ includes(uriPath, NodeModulesSlash)
                \/ isFileInOutDir(uriPath,
                        workspaceByName[folderName(workspaceFolder)].tsProjectByPath)
        THEN [ok |-> FALSE, err |-> "skipped"]
        ELSE [ok |-> TRUE, name |-> folderName(workspaceFolder)]

\* checkChangedFileAndGetWorkspace on this.workspaceByName: ok with the name
\* of the workspace, or not
checkChangedFileAndGetWorkspace(workspaceByName, uriPath) ==
    LET workspaceFolder == getWorkspaceFolderFromUri(uriPath)
    IN  IF workspaceFolder = Null THEN [ok |-> FALSE, err |-> "no folder"]
        ELSE IF folderName(workspaceFolder) \notin DOMAIN workspaceByName
        THEN [ok |-> FALSE, err |-> "no workspace"]
        ELSE IF \/ includes(uriPath, NodeModulesSlash)
                \/ isFileInOutDir(uriPath,
                        workspaceByName[folderName(workspaceFolder)].tsProjectByPath)
        THEN [ok |-> FALSE, err |-> "skipped"]
        ELSE [ok |-> TRUE, name |-> folderName(workspaceFolder)]

\* the import path of a relative import seen from the current file
relativeImportPath(uriPath, tsFilePath) ==
    LET importPathWithExt == relative(dirname(uriPath), tsFilePath)
    IN  pathWithoutExt(IF startsWith(importPathWithExt, <<".", ".">>)
                       THEN importPathWithExt
                       ELSE <<".", "/">> \o importPathWithExt)

\* the modules of a bucket offered to the current file
bareCompletions(modules, uriPath) ==
    LET keep(module) == module.tsFilePath # uriPath
        kept == SelectSeq(modules, keep)
    IN  [i \in 1..Len(kept) |->
            [moduleName |-> kept[i].moduleName, importPath |-> kept[i].importPath]]

relativeCompletions(modules, uriPath) ==
    LET keep(module) == module.tsFilePath # uriPath
        kept == SelectSeq(modules, keep)
    IN  [i \in 1..Len(kept) |->
            [moduleName |-> kept[i].moduleName,
             importPath |-> relativeImportPath(uriPath, kept[i].tsFilePath)]]

\* Map.get(key) ?? []
bucketAt(index, key) == IF key \in DOMAIN index THEN index[key] ELSE <<>>

\* getModulesForCompletion on this.workspaceByName; threw is the failure of
\* u.map.getOrThrow
getModulesForCompletion(workspaceByName, uriPath, query) ==
    LET checkResult == checkChangedFileAndGetWorkspace(workspaceByName, uriPath)
    IN  IF ~checkResult.ok THEN [threw |-> FALSE, modules |-> <<>>]
        ELSE LET workspace == workspaceByName[checkResult.name]
             IN  IF uriPath \notin DOMAIN workspace.ownerTsProjectPathByTsFilePath
                 THEN [threw |-> FALSE, modules |-> <<>>]
                 ELSE LET currentProjectPath ==
                              workspace.ownerTsProjectPathByTsFilePath[uriPath]
                      IN  IF currentProjectPath \notin DOMAIN workspace.tsProjectByPath
                          THEN [threw |-> TRUE, modules |-> <<>>]
                          ELSE LET currentProject ==
                                       workspace.tsProjectByPath[currentProjectPath]
                               IN  [threw |-> FALSE,
                                    modules |->
                                      bareCompletions(
                                        bucketAt(currentProject.modulesForBareImportByQueryFirstChar,
                                                 firstChar(query)), uriPath)
                                      \o relativeCompletions(
                                        bucketAt(currentProject.modulesForRelativeImportByQueryFirstChar,
                                                 firstChar(query)), uriPath)]

(***************************************************************************)
(* Builds in flight                                                        *)
(***************************************************************************)

\* the Map objects still referenced; the others are forgotten
collect(mp, c, ts) ==
    [id \in MapIds |->
        IF id = c \/ \E k \in 1..Len(ts) : ts[k].target = id THEN mp[id] ELSE EmptyMap]

\* a Map identity not in use
freshId ==
    CHOOSE id \in MapIds :
        /\ id # cur
        /\ \A k \in 1..Len(tasks) : tasks[k].target # id

\* Array.from(this.workspaceByName.values()).map(w => w.workspaceFolder)
trackedFolders ==
    LET tracked(f) == /\ folderName(f) \in DOMAIN maps[cur]
                      /\ maps[cur][folderName(f)].workspaceFolder = f
    IN  SelectSeq(FolderSeq, tracked)

\* a call of updateWorkspaceByNameInPlaceAsync suspended in the first await
\* of makeWorkspaceAsync for its first folder
newTask(kind, target, foldersToAdd, foldersToDelete) ==
    [kind |-> kind, target |-> target, todo |-> foldersToAdd,
     del |-> foldersToDelete, pc |-> "discover", locs |-> <<>>, read |-> <<>>]

\* resetAsync(folders) up to its first suspension: with no folder the new
\* empty Map is installed at once, otherwise a build starts on a new Map
resetAsync(folders) ==
    IF Len(folders) = 0
    THEN /\ cur' = freshId
         /\ maps' = collect([maps EXCEPT ![freshId] = EmptyMap], freshId, tasks)
         /\ tasks' = tasks
    ELSE /\ Len(tasks) < MaxTasks
         /\ tasks' = Append(tasks, newTask("reset", freshId, folders, {}))
         /\ maps' = [maps EXCEPT ![freshId] = EmptyMap]
         /\ cur' = cur

\* a rebuilt workspace set with the owner map of the workspace it replaces
setWorkspaceKeepingOwners(workspaceByName, name, workspace) ==
    mapSet(workspaceByName, name,
           IF name \in DOMAIN maps[cur]
           THEN [workspace EXCEPT !.ownerTsProjectPathByTsFilePath =
                    maps[cur][name].ownerTsProjectPathByTsFilePath]
           ELSE workspace)

\* workspaceByName.set(folder.name, result.value)
setWorkspace(workspaceByName, name, workspace) == mapSet(workspaceByName, name, workspace)

\* the sequence without its i-th element
removeAt(sq, i) == SubSeq(sq, 1, i - 1) \o SubSeq(sq, i + 1, Len(sq))

\* the loop of updateWorkspaceByNameInPlaceAsync left at the first folder
\* whose build fails: the folders after it are not built
folderDoneAbortingBatch(i, ok, workspace) ==
    LET t == tasks[i]
        m1 == IF ok THEN setWorkspace(maps[t.target], folderName(Head(t.todo)), workspace)
              ELSE maps[t.target]
        m2 == [n \in (DOMAIN m1) \ {folderName(f) : f \in t.del} |-> m1[n]]
        newCur == IF t.kind = "reset" THEN t.target ELSE cur
    IN  IF ok /\ Len(t.todo) > 1
        THEN /\ maps' = [maps EXCEPT ![t.target] = m1]
             /\ tasks' = [tasks EXCEPT ![i] =
                    [@ EXCEPT !.todo = Tail(@), !.pc = "discover",
                              !.locs = <<>>, !.read = <<>>]]
             /\ cur' = cur
        ELSE /\ cur' = newCur
             /\ tasks' = removeAt(tasks, i)
             /\ maps' = collect([maps EXCEPT ![t.target] = m2], newCur, removeAt(tasks, i))

\* the end of one iteration of the loop of updateWorkspaceByNameInPlaceAsync
\* for task i: the workspace is set when the build succeeded; after the last
\* folder the folders to delete are deleted and a reset installs its Map
folderDone(i, ok, workspace) ==
    LET t == tasks[i]
        m1 == IF ok THEN setWorkspace(maps[t.target], folderName(Head(t.todo)), workspace)
              ELSE maps[t.target]
        m2 == [n \in (DOMAIN m1) \ {folderName(f) : f \in t.del} |-> m1[n]]
        newCur == IF t.kind = "reset" THEN t.target ELSE cur
    IN  IF Len(t.todo) > 1
        THEN /\ maps' = [maps EXCEPT ![t.target] = m1]
             /\ tasks' = [tasks EXCEPT ![i] =
                    [@ EXCEPT !.todo = Tail(@), !.pc = "discover",
                              !.locs = <<>>, !.read = <<>>]]
             /\ cur' = cur
        ELSE /\ cur' = newCur
             /\ tasks' = removeAt(tasks, i)
             /\ maps' = collect([maps EXCEPT ![t.target] = m2], newCur, removeAt(tasks, i))


(***************************************************************************)
(* The handlers                                                            *)
(***************************************************************************)

\* what an event handler decides to do
\*   "reset"  : await this.resetAsync(all tracked folders)
\*   "update" : this.workspaceByName after the synchronous update
\*   "none"   : return without effect
decision(kind, workspaceByName) == [kind |-> kind, workspaceByName |-> workspaceByName]

\* handleFileCreatedAsync starting a reset for a file whose workspace lookup
\* fails, where the lookup failure should end the handler
handleFileCreatedResettingOnMiss(workspaceByName, uriPath) ==
    IF basename(uriPath) = TsConfigName THEN decision("reset", workspaceByName)
    ELSE IF ~isTsFile(uriPath) THEN decision("none", workspaceByName)
    ELSE LET checkResult == checkChangedFileAndGetWorkspace(workspaceByName, uriPath)
         IN  IF ~checkResult.ok THEN decision("reset", workspaceByName)
             ELSE decision("update",
                    [workspaceByName EXCEPT ![checkResult.name] = fileCreated(@, uriPath)])

\* handleFileCreatedAsync up to its end or its call of resetAsync
handleFileCreated(workspaceByName, uriPath) ==
    IF basename(uriPath) = TsConfigName THEN decision("reset", workspaceByName)
    ELSE IF ~isTsFile(uriPath) THEN decision("none", workspaceByName)
    ELSE LET checkResult == checkChangedFileAndGetWorkspace(workspaceByName, uriPath)
         IN  IF ~checkResult.ok THEN decision("none", workspaceByName)
             ELSE decision("update",
                    [workspaceByName EXCEPT ![checkResult.name] = fileCreated(@, uriPath)])

\* handleFileDeletedAsync up to its end or its call of resetAsync
handleFileDeleted(workspaceByName, uriPath) ==
    LET checkResult == checkChangedFileAndGetWorkspace(workspaceByName, uriPath)
    IN  IF ~checkResult.ok THEN decision("none", workspaceByName)
        ELSE IF extname(uriPath) = <<>>
        THEN IF \E tsProjectPath \in
                    DOMAIN workspaceByName[checkResult.name].tsProjectByPath :
                        startsWith(tsProjectPath, uriPath)
             THEN decision("reset", workspaceByName)
             ELSE decision("update",
                    [workspaceByName EXCEPT ![checkResult.name] =
                        directoryDeleted(@, uriPath)])
        ELSE IF basename(uriPath) = TsConfigName THEN decision("reset", workspaceByName)
        ELSE IF ~isTsFile(uriPath) THEN decision("none", workspaceByName)
        ELSE decision("update",
                    [workspaceByName EXCEPT ![checkResult.name] = fileDeleted(@, uriPath)])

\* handleFileChangedAsync starting a reset for every .ts/.tsx file too
handleFileChangedResettingOnSource(workspaceByName, uriPath) ==
    IF basename(uriPath) = TsConfigName \/ isTsFile(uriPath)
    THEN decision("reset", workspaceByName)
    ELSE decision("none", workspaceByName)

\* handleFileChangedAsync up to its end or its call of resetAsync
handleFileChanged(workspaceByName, uriPath) ==
    IF basename(uriPath) = TsConfigName THEN decision("reset", workspaceByName)
    ELSE decision("none", workspaceByName)

\* the effect of a handler's decision on the service
apply(d) ==
    IF d.kind = "reset" THEN resetAsync(trackedFolders)
    ELSE /\ maps' = [maps EXCEPT ![cur] = d.workspaceByName]
         /\ UNCHANGED <<cur, tasks>>

\* no function is called on its own
NoCall == [fn |-> "none"]
\* nothing has been returned
NoRet == [returned |-> FALSE]

\* no query has been answered since the last step
NoQuery == [uri |-> <<>>, query |-> <<>>, result |-> [threw |-> FALSE, modules |-> <<>>]]

\* a call of the service is counted
called ==
    /\ serial => Len(tasks) = 0
    /\ nev < (IF serial THEN MaxSerialEvents ELSE MaxEvents)
    /\ nev' = nev + 1
    /\ UNCHANGED serial

\* the file system watcher reports the paths inside the workspace folders
watched(uriPath) == \E folder \in editorFolders : isUnder(uriPath, folder)

\* an event is counted and remembered
event(act, arg) ==
    /\ called
    /\ qres' = NoQuery
    /\ last' = IF Len(last) > 0
               THEN <<last[Len(last)], [act |-> act, arg |-> arg]>>
               ELSE <<[act |-> act, arg |-> arg]>>

(***************************************************************************)
(* Actions: the file system, the editor and the events they deliver        *)
(***************************************************************************)

\* a file appears on disk: onDidCreate -> handleFileCreatedAsync
CreateFile(f) ==
    /\ watched(f)
    /\ f \notin files
    /\ event("CreateFile", f)
    /\ files' = files \cup {f}
    /\ apply(handleFileCreated(maps[cur], f))
    /\ UNCHANGED <<cfgs, editorFolders, nfault>>
    /\ UNCHANGED pure

\* a file is removed: onDidDelete -> handleFileDeletedAsync
DeleteFile(f) ==
    /\ watched(f)
    /\ f \in files
    /\ event("DeleteFile", f)
    /\ files' = files \ {f}
    /\ apply(handleFileDeleted(maps[cur], f))
    /\ UNCHANGED <<cfgs, editorFolders, nfault>>
    /\ UNCHANGED pure

\* a directory is removed with all it holds; one deleted path is reported
DeleteDir(d) ==
    /\ watched(d)
    /\ \/ \E f \in files : isUnder(f, d)
       \/ \E loc \in DOMAIN cfgs : loc = d \/ isUnder(loc, d)
    /\ event("DeleteDir", d)
    /\ files' = {f \in files : ~isUnder(f, d)}
    /\ cfgs' = [loc \in {l \in DOMAIN cfgs : l # d /\ ~isUnder(l, d)} |-> cfgs[loc]]
    /\ apply(handleFileDeleted(maps[cur], d))
    /\ UNCHANGED <<editorFolders, nfault>>
    /\ UNCHANGED pure

\* the content of a source file is edited: onDidChange
ChangeFile(f) ==
    /\ watched(f)
    /\ f \in files
    /\ event("ChangeFile", f)
    /\ apply(handleFileChanged(maps[cur], f))
    /\ UNCHANGED <<files, cfgs, editorFolders, nfault>>
    /\ UNCHANGED pure

\* a tsconfig.json is written where there was none
CreateConfig(loc, c) ==
    /\ watched(tsconfigAt(loc))
    /\ loc \notin DOMAIN cfgs
    /\ c \in CfgChoices(loc)
    /\ event("CreateConfig", loc)
    /\ cfgs' = mapSet(cfgs, loc, c)
    /\ apply(handleFileCreated(maps[cur], tsconfigAt(loc)))
    /\ UNCHANGED <<files, editorFolders, nfault>>
    /\ UNCHANGED pure

\* a tsconfig.json is edited
ChangeConfig(loc, c) ==
    /\ watched(tsconfigAt(loc))
    /\ loc \in DOMAIN cfgs
    /\ c \in CfgChoices(loc) \ {cfgs[loc]}
    /\ event("ChangeConfig", loc)
    /\ cfgs' = mapSet(cfgs, loc, c)
    /\ apply(handleFileChanged(maps[cur], tsconfigAt(loc)))
    /\ UNCHANGED <<files, editorFolders, nfault>>
    /\ UNCHANGED pure

\* a tsconfig.json is removed
DeleteConfig(loc) ==
    /\ watched(tsconfigAt(loc))
    /\ loc \in DOMAIN cfgs
    /\ event("DeleteConfig", loc)
    /\ cfgs' = mapDelete(cfgs, loc)
    /\ apply(handleFileDeleted(maps[cur], tsconfigAt(loc)))
    /\ UNCHANGED <<files, editorFolders, nfault>>
    /\ UNCHANGED pure

\* the editor's workspace folders change: handleWorkspaceChangedAsync.
\* Without added folders the removed ones are deleted before the first
\* await; otherwise the call suspends in the build of the first added folder
ChangeFolders(added, removed) ==
    /\ added \cup removed # {}
    /\ added \subseteq Folders \ editorFolders
    /\ removed \subseteq editorFolders
    /\ event("ChangeFolders", seqOf(FolderSeq, added) \o seqOf(FolderSeq, removed))
    /\ editorFolders' = (editorFolders \ removed) \cup added
    /\ IF added = {}
       THEN /\ maps' = [maps EXCEPT ![cur] =
                    [n \in (DOMAIN @) \ {folderName(f) : f \in removed} |-> @[n]]]
            /\ UNCHANGED <<cur, tasks>>
       ELSE /\ Len(tasks) < MaxTasks
            /\ tasks' = Append(tasks,
                    newTask("change", cur, seqOf(FolderSeq, added), removed))
            /\ UNCHANGED <<maps, cur>>
    /\ UNCHANGED <<files, cfgs, nfault>>
    /\ UNCHANGED pure

\* the completion provider asks for the modules of a prefix, for a document
\* that is on disk
Query(uriPath, query) ==
    /\ uriPath \in files
    /\ nev < (IF serial THEN MaxSerialEvents ELSE MaxEvents)
    /\ nev' = nev + 1
    /\ qres' = [uri |-> uriPath, query |-> query,
                result |-> getModulesForCompletion(maps[cur], uriPath, query)]
    /\ UNCHANGED <<files, cfgs, editorFolders, maps, cur, tasks, last, serial, nfault>>
    /\ UNCHANGED pure


(***************************************************************************)
(* Actions: the steps of a build in flight (the awaits of                  *)
(* discoverTsConfigJsonsAsync and makeWorkspaceAsync)                      *)
(***************************************************************************)

\* the folder a task is building
building(i) == Head(tasks[i].todo)

\* what findFiles('**/tsconfig.json', '**/node_modules/**') finds in a
\* workspace folder: the directories of its tsconfig.json files
findTsConfigs(workspaceFolder) ==
    LET found(loc) ==
            /\ loc \in DOMAIN cfgs
            /\ loc = workspaceFolder \/ isUnder(loc, workspaceFolder)
            /\ ~includes(loc \o <<"/">>, <<"/">> \o NodeModulesSlash)
    IN  SelectSeq(CfgLocSeq, found)

\* findFiles('**/tsconfig.json', '**/node_modules/**') answers
Discover(i) ==
    /\ tasks[i].pc = "discover"
    /\ tasks' = [tasks EXCEPT ![i] =
            [@ EXCEPT !.pc = "read", !.locs = findTsConfigs(building(i))]]
    /\ qres' = NoQuery
    /\ UNCHANGED <<files, cfgs, editorFolders, maps, cur, last, serial, nev, nfault>>
    /\ UNCHANGED pure

\* findFiles for the tsconfig.json files throws: the folder is not built
DiscoverFails(i) ==
    /\ tasks[i].pc = "discover"
    /\ nfault < MaxFaults
    /\ nfault' = nfault + 1
    /\ folderDone(i, FALSE, EmptyMap)
    /\ qres' = NoQuery
    /\ UNCHANGED <<files, cfgs, editorFolders, last, serial, nev>>
    /\ UNCHANGED pure

\* the loop of discoverTsConfigJsonsAsync and its sort: the documents of the
\* tsconfig.json files found are opened and parsed; the ones in failed
\* cannot be opened and are skipped
readTsConfigs(found, failed) ==
    LET opened(loc) == loc \in DOMAIN cfgs /\ loc \notin failed
        locs == SelectSeq(found, opened)
        parsed == [k \in 1..Len(locs) |->
                    [tsProjectPath |-> dirname(tsconfigAt(locs[k])),
                     tsConfigJson |-> cfgs[locs[k]]]]
    IN  sortByDepth(parsed, <<>>)

\* the rest of discoverTsConfigJsonsAsync for task i
readConfigs(i, failed) ==
    tasks' = [tasks EXCEPT ![i] =
        [@ EXCEPT !.pc = "enum", !.read = readTsConfigs(tasks[i].locs, failed)]]

\* every tsconfig.json still on disk is read
ReadConfigs(i) ==
    /\ tasks[i].pc = "read"
    /\ readConfigs(i, {})
    /\ qres' = NoQuery
    /\ UNCHANGED <<files, cfgs, editorFolders, maps, cur, last, serial, nev, nfault>>
    /\ UNCHANGED pure

\* openTextDocument throws for one tsconfig.json
ReadConfigsOneFails(i, loc) ==
    /\ tasks[i].pc = "read"
    /\ \E k \in 1..Len(tasks[i].locs) : tasks[i].locs[k] = loc
    /\ nfault < MaxFaults
    /\ nfault' = nfault + 1
    /\ readConfigs(i, {loc})
    /\ qres' = NoQuery
    /\ UNCHANGED <<files, cfgs, editorFolders, maps, cur, last, serial, nev>>
    /\ UNCHANGED pure

\* what findFiles('**/*.{ts,tsx}', excludes) finds in a workspace folder
findTsFiles(workspaceFolder, tsConfigJsonWithPaths) ==
    LET found(f) ==
            /\ f \in files
            /\ isUnder(f, workspaceFolder)
            /\ isTsFile(f)
            /\ ~globExcluded(workspaceFolder, tsConfigJsonWithPaths, f)
    IN  SelectSeq(FileSeq, found)

\* findFiles('**/*.{ts,tsx}', excludes) answers; the workspace is made and
\* set, and the loop of updateWorkspaceByNameInPlaceAsync goes on
Enumerate(i) ==
    /\ tasks[i].pc = "enum"
    /\ folderDone(i, TRUE,
            makeWorkspace(building(i), tasks[i].read,
                          findTsFiles(building(i), tasks[i].read)))
    /\ qres' = NoQuery
    /\ UNCHANGED <<files, cfgs, editorFolders, last, serial, nev, nfault>>
    /\ UNCHANGED pure

\* findFiles for the source files throws: the folder is not built
EnumerateFails(i) ==
    /\ tasks[i].pc = "enum"
    /\ nfault < MaxFaults
    /\ nfault' = nfault + 1
    /\ folderDone(i, FALSE, EmptyMap)
    /\ qres' = NoQuery
    /\ UNCHANGED <<files, cfgs, editorFolders, last, serial, nev>>
    /\ UNCHANGED pure

(***************************************************************************)
(* Specification                                                           *)
(***************************************************************************)

DiskOne == {FileFooBar, FileAX, FileDistZ, FileW2K}
DiskTwo == {FileFooBar, FileAX, FileAbY, FileDistxV, FilePlainFoo, FileW2K, FileV1Q}

CfgsOne ==
    [loc \in {WsPath, ProjA, W2Path} |->
        IF loc = WsPath THEN CfgAlias ELSE IF loc = ProjA THEN CfgBase ELSE CfgPlain]
\* the same with a tsconfig.json copied into the build-output directory
CfgsTwo == mapSet(CfgsOne, ProjDist, CfgPlain)

\* the state when the constructor returns: this.workspaceByName is an empty
\* Map and resetAsync(workspaceFolders) is suspended in its first await
InitCommon ==
    /\ \/ files = DiskOne /\ cfgs = CfgsTwo
       \/ files = DiskTwo /\ cfgs = CfgsOne
    /\ editorFolders = {WsPath}
    /\ maps = [id \in MapIds |-> EmptyMap]
    /\ cur = 0
    /\ tasks = <<newTask("reset", 1, seqOf(FolderSeq, editorFolders), {})>>
    /\ qres = NoQuery
    /\ last = <<>>
    /\ nev = 0
    /\ nfault = 0
    /\ call = NoCall
    /\ ret = NoRet

Next ==
    \/ \E f \in AllFiles : CreateFile(f)
    \/ \E f \in AllFiles : DeleteFile(f)
    \/ \E d \in Dirs \cup {FilePlainFoo} : DeleteDir(d)
    \/ \E f \in AllFiles : ChangeFile(f)
    \/ \E loc \in CfgLocs : \E c \in CfgChoices(loc) : CreateConfig(loc, c)
    \/ \E loc \in CfgLocs : \E c \in CfgChoices(loc) : ChangeConfig(loc, c)
    \/ \E loc \in CfgLocs : DeleteConfig(loc)
    \/ \E added \in SUBSET Folders : \E removed \in SUBSET Folders :
            ChangeFolders(added, removed)
    \/ \E i \in 1..Len(tasks) : Discover(i)
    \/ \E i \in 1..Len(tasks) : DiscoverFails(i)
    \/ \E i \in 1..Len(tasks) : ReadConfigs(i)
    \/ \E i \in 1..Len(tasks) : \E loc \in CfgLocs : ReadConfigsOneFails(i, loc)
    \/ \E i \in 1..Len(tasks) : Enumerate(i)
    \/ \E i \in 1..Len(tasks) : EnumerateFails(i)
    \/ \E f \in AllFiles : \E q \in Queries : Query(f, q)

\* the host delivers events whenever they occur
Init == InitCommon /\ serial = FALSE

Spec == Init /\ [][Next]_vars

\* the host delivers one event at a time, each handled to completion
InitSerial == InitCommon /\ serial = TRUE

SpecSerial == InitSerial /\ [][Next]_vars

\* the constructor is given the two folders of a multi-root workspace:
\* resetAsync builds them one after the other into the same new Map
InitTwoFolders ==
    /\ files = DiskOne
    /\ cfgs = CfgsOne
    /\ editorFolders = {WsPath, W2Path}
    /\ maps = [id \in MapIds |-> EmptyMap]
    /\ cur = 0
    /\ tasks = <<newTask("reset", 1, seqOf(FolderSeq, editorFolders), {})>>
    /\ qres = NoQuery
    /\ last = <<>>
    /\ nev = 0
    /\ nfault = 0
    /\ call = NoCall
    /\ ret = NoRet
    /\ serial = FALSE

SpecTwoFolders == InitTwoFolders /\ [][Next]_vars

(***************************************************************************)
(* The functions of uri_helpers.ts called on their own: the arguments are  *)
(* drawn when the run starts, one step makes the call                      *)
(***************************************************************************)

\* project roots and file paths for findOwnerTsProjectForTsFile
ProjAB == <<"/", "w", "s", "/", "a", "/", "b">>
ProjAb == <<"/", "w", "s", "/", "a", "b">>
RootSeq == <<WsPath, ProjA, ProjAB, ProjAb, W2Path>>
FileABX == <<"/", "w", "s", "/", "a", "/", "b", "/", "x", ".", "t", "s">>
OwnerFiles == {FileABX, FileAX, FileAbY, FileFooBar, FileW2K}

\* the keys of tsProjectByPath handed to findOwnerTsProjectForTsFile
MaxRoots == 3

\* the sequences of at most MaxRoots distinct roots
RootLists ==
    {r \in UNION {[1..n -> 1..Len(RootSeq)] : n \in 0..MaxRoots} :
        \A i, j \in DOMAIN r : i # j => r[i] # r[j]}

rootsOf(r) == [i \in DOMAIN r |-> RootSeq[r[i]]]

\* the paths of files below /ws/src without "/ws/src/" and ".ts"
RestSeq == << <<"f", "o", "o", "_", "b", "a", "r">>, <<"i", "n", "d", "e", "x">>, <<"a", "/", "b">>,
             <<"a", "/", "b", "/", "c", "_", "d">>, <<"x", ".", "t", "e", "s", "t">> >>
SrcSlash == <<"/", "w", "s", "/", "s", "r", "c", "/">>
srcFile(rest) == SrcSlash \o rest \o DotTs

\* other files handed to evaluateModuleForTsProject
FileLibBaz == <<"/", "w", "s", "/", "l", "i", "b", "/", "b", "a", "z", ".", "t", "s">>
FileSrcxQ == <<"/", "w", "s", "/", "s", "r", "c", "x", "/", "q", ".", "t", "s">>
FileSrcV == <<"/", "w", "s", "/", "s", "r", "c", "/", "v", ".", "t", "s", "x">>
FileASrcM == <<"/", "w", "s", "/", "a", "/", "s", "r", "c", "/", "m", ".", "t", "s">>
FileTypesT == <<"/", "w", "s", "/", "t", "y", "p", "e", "s", "/", "t", ".", "t", "s">>
\* the target a tsconfig.json gives an alias that must resolve nothing
DummyValue ==
    <<"d", "u", "m", "m", "y", "-", "v", "a", "l", "u", "e", "-", "s", "o", "-", "n", "o",
      "t", "h", "i", "n", "g", "-", "i", "s", "-", "r", "e", "s", "o", "l", "v", "e", "d">>
\* a file below a directory named like that target
FileDummyX == WsPath \o <<"/">> \o DummyValue \o <<"/", "x", ".", "t", "s">>
ModuleFiles ==
    {srcFile(RestSeq[i]) : i \in DOMAIN RestSeq}
    \cup {FileLibBaz, FileSrcxQ, FileSrcV, FileASrcM, FileTypesT, FileAX, FileW2K,
          FileDummyX, FileAbY}

\* compilerOptions.paths {"@/*": ["src/*"]}
SrcAliasPaths == << << <<"@", "/", "*">>, << <<"s", "r", "c", "/", "*">> >> >> >>
\* tsconfig contents handed to evaluateModuleForTsProject
CfgSrcAlias == [baseUrl |-> Null, paths |-> SrcAliasPaths, outDir |-> Null]
CfgBaseAlias == [baseUrl |-> <<".">>, paths |-> SrcAliasPaths, outDir |-> Null]
\* {"*/types": ["types/*"]}: the wildcard is not the end of the pattern
CfgStarFirst ==
    [baseUrl |-> Null,
     paths |-> << << <<"*", "/", "t", "y", "p", "e", "s">>, << <<"t", "y", "p", "e", "s", "/", "*">> >> >> >>,
     outDir |-> Null]
\* {"@/*": ["src"]}: the target has no wildcard
CfgStarToDir ==
    [baseUrl |-> Null,
     paths |-> << << <<"@", "/", "*">>, << <<"s", "r", "c">> >> >> >>,
     outDir |-> Null]
\* {"lib": ["lib/baz.ts"], "@/*": ["src/*"]}: an alias without wildcard
CfgExact ==
    [baseUrl |-> Null,
     paths |-> << << <<"l", "i", "b">>, << <<"l", "i", "b", "/", "b", "a", "z", ".", "t", "s">> >> >>,
                  << <<"@", "/", "*">>, << <<"s", "r", "c", "/", "*">> >> >> >>,
     outDir |-> Null]
\* {"@a/*": ["src/a/*"], "@/*": ["src/*"]}: two entries match the files
\* below /ws/src/a
CfgTwoEntries ==
    [baseUrl |-> Null,
     paths |-> << << <<"@", "a", "/", "*">>, << <<"s", "r", "c", "/", "a", "/", "*">> >> >>,
                  << <<"@", "/", "*">>, << <<"s", "r", "c", "/", "*">> >> >> >>,
     outDir |-> Null]
\* {"@/*": ["src/a/*", "src/*"]}: two targets of one entry match them
CfgTwoTargets ==
    [baseUrl |-> Null,
     paths |-> << << <<"@", "/", "*">>,
                     << <<"s", "r", "c", "/", "a", "/", "*">>, <<"s", "r", "c", "/", "*">> >> >> >>,
     outDir |-> Null]
\* {"@/*": ["src/*"], "1": ["src/foo_bar.ts"]}: the second key is an
\* array index
CfgIndexKey ==
    [baseUrl |-> Null,
     paths |-> << << <<"@", "/", "*">>, << <<"s", "r", "c", "/", "*">> >> >>,
                  << <<"1">>, << <<"s", "r", "c", "/", "f", "o", "o", "_", "b", "a", "r", ".", "t", "s">> >> >> >>,
     outDir |-> Null]
\* {"@/*": ["dummy-value-so-nothing-is-resolved"]}
CfgDummy ==
    [baseUrl |-> Null,
     paths |-> << << <<"@", "/", "*">>, <<DummyValue>> >> >>,
     outDir |-> Null]
\* {"@/*": ["dummy-value-so-nothing-is-resolved"], "~/*": ["src/*"]}: an
\* entry follows the one that must resolve nothing
CfgDummyThenSrc ==
    [baseUrl |-> Null,
     paths |-> << << <<"@", "/", "*">>, <<DummyValue>> >>,
                  << <<"~", "/", "*">>, << <<"s", "r", "c", "/", "*">> >> >> >>,
     outDir |-> Null]
\* baseUrl "." with {"lib/*": ["dummy-value-so-nothing-is-resolved"]}: the
\* baseUrl is the fallback of the files the entry leaves unresolved
CfgDummyBase ==
    [baseUrl |-> <<".">>,
     paths |-> << << <<"l", "i", "b", "/", "*">>, <<DummyValue>> >> >>,
     outDir |-> Null]
\* baseUrl "src" and no paths
CfgBaseSrc == [baseUrl |-> <<"s", "r", "c">>, paths |-> NullPaths, outDir |-> Null]
\* {"lib": ["lib"]}: an alias without wildcard for a directory
CfgDirExact ==
    [baseUrl |-> Null,
     paths |-> << << <<"l", "i", "b">>, << <<"l", "i", "b">> >> >> >>,
     outDir |-> Null]
ModuleCfgs == {CfgSrcAlias, CfgBaseAlias, CfgStarFirst, CfgStarToDir, CfgExact,
               CfgAlias, CfgBase, CfgPlain, CfgTwoEntries, CfgTwoTargets, CfgIndexKey,
               CfgDummy, CfgDummyThenSrc, CfgDummyBase, CfgBaseSrc, CfgDirExact}

\* a TsProject of the workspace folder /ws before any module is added
projectOf(tsConfigJson) ==
    [tsConfigJson |-> tsConfigJson,
     workspaceFolder |-> WsPath,
     modulesForBareImportByQueryFirstChar |-> EmptyMap,
     modulesForRelativeImportByQueryFirstChar |-> EmptyMap]

\* the calls of evaluateModuleForTsProject made on their own
EvaluateCalls ==
    {[fn |-> "evaluateModuleForTsProject", tsProjectPath |-> root,
      tsProject |-> projectOf(c), moduleUri |-> f] :
        root \in {WsPath, ProjA}, c \in ModuleCfgs, f \in ModuleFiles}

\* the calls of findOwnerTsProjectForTsFile made on their own
FindOwnerCalls ==
    {[fn |-> "findOwnerTsProjectForTsFile", uriPath |-> f,
      tsProjectPaths |-> rootsOf(r)] : f \in OwnerFiles, r \in RootLists}

\* {"@/*": ["../src/*"]} in /ws/a: an alias that reaches the files of the
\* project at /ws
CfgReach ==
    [baseUrl |-> Null,
     paths |-> << << <<"@", "/", "*">>, << <<".", ".", "/", "s", "r", "c", "/", "*">> >> >> >>,
     outDir |-> Null]

\* what discoverTsConfigJsonsAsync may hand to makeWorkspaceAsync for /ws
tsConfigJsonWithPath(tsProjectPath, tsConfigJson) ==
    [tsProjectPath |-> tsProjectPath, tsConfigJson |-> tsConfigJson]
DiscoveredSeq ==
    << <<>>,
       <<tsConfigJsonWithPath(WsPath, CfgPlain)>>,
       <<tsConfigJsonWithPath(WsPath, CfgAlias), tsConfigJsonWithPath(ProjA, CfgBase)>>,
       <<tsConfigJsonWithPath(WsPath, CfgSrcAlias), tsConfigJsonWithPath(ProjA, CfgReach)>> >>
\* the files findFiles may return for /ws, in its order
EnumeratedSeq == <<FileFooBar, FileAX, FileAbY, FileDistxV, FileASrcM>>

\* the calls of makeWorkspaceAsync seen after its awaits
MakeWorkspaceCalls ==
    {[fn |-> "makeWorkspaceAsync", workspaceFolder |-> WsPath,
      tsConfigJsonWithPaths |-> sortByDepth(DiscoveredSeq[i], <<>>),
      uris |-> seqOf(EnumeratedSeq, found)] :
        i \in DOMAIN DiscoveredSeq,
        found \in SUBSET {EnumeratedSeq[k] : k \in DOMAIN EnumeratedSeq}}

\* a file whose base name gives the module name of foo_bar.ts
FileSrcAFooBar == <<"/", "w", "s", "/", "s", "r", "c", "/", "a", "/", "f", "o", "o", "-", "b", "a", "r", ".", "t", "s">>
CollidingSeq == <<FileFooBar, FileSrcAFooBar, FileAX>>

\* the calls of handleFileDeletedAsync on a service whose Map holds the
\* workspace a build of /ws has made
FileDeletedCalls ==
    {[fn |-> "handleFileDeletedAsync",
      workspaceByName |->
        setWorkspace(EmptyMap, folderName(WsPath),
            makeWorkspace(WsPath, sortByDepth(DiscoveredSeq[i], <<>>),
                          seqOf(CollidingSeq, found))),
      uriPath |-> f] :
        i \in DOMAIN DiscoveredSeq,
        found \in SUBSET {CollidingSeq[k] : k \in DOMAIN CollidingSeq},
        f \in {CollidingSeq[k] : k \in DOMAIN CollidingSeq}}

InitPure ==
    /\ files = DiskOne
    /\ cfgs = CfgsOne
    /\ editorFolders = {WsPath}
    /\ maps = [id \in MapIds |-> EmptyMap]
    /\ cur = 0
    /\ tasks = <<>>
    /\ qres = NoQuery
    /\ last = <<>>
    /\ serial = FALSE
    /\ nev = 0
    /\ nfault = 0
    /\ call \in FindOwnerCalls \cup EvaluateCalls \cup MakeWorkspaceCalls
                \cup FileDeletedCalls
    /\ ret = NoRet

\* findOwnerTsProjectForTsFile(uri, tsProjectPaths) is called
CallFindOwner ==
    /\ call.fn = "findOwnerTsProjectForTsFile"
    /\ ret = NoRet
    /\ ret' = [returned |-> TRUE,
               value |-> findOwnerTsProjectForTsFile(call.uriPath, call.tsProjectPaths)]
    /\ UNCHANGED <<service, call>>

\* evaluateModuleForTsProject(tsProjectPath, tsProject, moduleUri) is called
CallEvaluate ==
    /\ call.fn = "evaluateModuleForTsProject"
    /\ ret = NoRet
    /\ ret' = [returned |-> TRUE,
               value |-> evaluateModuleForTsProject(call.tsProjectPath, call.tsProject,
                                                    call.moduleUri)]
    /\ UNCHANGED <<service, call>>

\* makeWorkspaceAsync builds the workspace from what its awaits returned
CallMakeWorkspace ==
    /\ call.fn = "makeWorkspaceAsync"
    /\ ret = NoRet
    /\ ret' = [returned |-> TRUE,
               value |-> makeWorkspace(call.workspaceFolder, call.tsConfigJsonWithPaths,
                                       call.uris)]
    /\ UNCHANGED <<service, call>>

\* handleFileDeletedAsync(uri) is called
CallFileDeleted ==
    /\ call.fn = "handleFileDeletedAsync"
    /\ ret = NoRet
    /\ ret' = [returned |-> TRUE,
               value |-> handleFileDeleted(call.workspaceByName, call.uriPath)]
    /\ UNCHANGED <<service, call>>

NextPure == CallFindOwner \/ CallEvaluate \/ CallMakeWorkspace \/ CallFileDeleted

SpecPure == InitPure /\ [][NextPure]_vars

\* the service runs with events delivered whenever they occur, or a
\* function of uri_helpers.ts is called on its own
InitAll == Init \/ InitPure

NextAll == (call = NoCall /\ Next) \/ NextPure

SpecAll == InitAll /\ [][NextAll]_vars

(***************************************************************************)
(* Properties                                                              *)
(***************************************************************************)

\* the pairs (bucket key, record) of an index
recordsOf(index) ==
    UNION {{<<key, index[key][i]>> : i \in DOMAIN index[key]} : key \in DOMAIN index}

\* a workspace as the sets of the records of its buckets and its owner map
canonWorkspace(workspace) ==
    [projects |->
        [tsProjectPath \in DOMAIN workspace.tsProjectByPath |->
            [bare |-> recordsOf(workspace.tsProjectByPath[tsProjectPath]
                                    .modulesForBareImportByQueryFirstChar),
             rel |-> recordsOf(workspace.tsProjectByPath[tsProjectPath]
                                    .modulesForRelativeImportByQueryFirstChar)]],
     owners |-> workspace.ownerTsProjectPathByTsFilePath]

canon(workspaceByName) ==
    [name \in DOMAIN workspaceByName |-> canonWorkspace(workspaceByName[name])]

\* makeWorkspaceAsync run on the disk as it is, all its awaits answered at once
builtFrom(workspaceFolder, tsConfigJsonWithPaths) ==
    makeWorkspace(workspaceFolder, tsConfigJsonWithPaths,
                  findTsFiles(workspaceFolder, tsConfigJsonWithPaths))

freshBuild(workspaceFolder) ==
    builtFrom(workspaceFolder, readTsConfigs(findTsConfigs(workspaceFolder), {}))

\* the files a workspace mentions, in its owner map or in a bucket
mentioned(workspace) ==
    (DOMAIN workspace.ownerTsProjectPathByTsFilePath)
    \cup UNION {
        {kr[2].tsFilePath :
            kr \in recordsOf(workspace.tsProjectByPath[p].modulesForBareImportByQueryFirstChar)
                   \cup recordsOf(workspace.tsProjectByPath[p]
                                    .modulesForRelativeImportByQueryFirstChar)}
        : p \in DOMAIN workspace.tsProjectByPath}

\* the last event delivered
lastEvent == last[Len(last)]

\* the step delivers an event to its handler
eventStep == nev' = nev + 1 /\ qres' = NoQuery

FileEvents == {"CreateFile", "DeleteFile"}
ConfigEvents == {"CreateConfig", "ChangeConfig", "DeleteConfig"}

\* every build so far succeeded, none is in flight, and every call of the
\* service so far was one of the events remembered
quietAfter(acts) ==
    /\ Len(tasks) = 0
    /\ nfault = 0
    /\ Len(last) > 0
    /\ nev = Len(last)
    /\ \A i \in DOMAIN last : last[i].act \in acts

\* C1: after file-created and file-deleted events delivered one at a time to
\* a successfully built workspace, the indices and the owner map of every
\* folder hold the records a fresh full build over the files now on disk gives
C1_RescanEquivalence ==
    (serial /\ quietAfter(FileEvents)) =>
        \A folder \in editorFolders :
            /\ folderName(folder) \in DOMAIN maps[cur]
            /\ canonWorkspace(maps[cur][folderName(folder)])
                    = canonWorkspace(freshBuild(folder))

\* the records of the projects of a workspace
allRecords(workspace) ==
    UNION {recordsOf(workspace.tsProjectByPath[p].modulesForBareImportByQueryFirstChar)
           \cup recordsOf(workspace.tsProjectByPath[p].modulesForRelativeImportByQueryFirstChar)
           : p \in DOMAIN workspace.tsProjectByPath}

\* the build-output directories of the projects of a workspace
outDirs(workspace) ==
    {getAbsoluteOutDir(p, workspace.tsProjectByPath[p].tsConfigJson) :
        p \in DOMAIN workspace.tsProjectByPath} \ {Null}

\* C2: no index of a workspace folder holds a record of a file that lies
\* under the build-output directory of a project of that folder
C2_NoRecordUnderOutDir ==
    \A id \in MapIds : \A name \in DOMAIN maps[id] :
        \A kr \in allRecords(maps[id][name]) : \A outDir \in outDirs(maps[id][name]) :
            ~isUnder(kr[2].tsFilePath, outDir)

\* C2 witness: /ws/dist/z.ts, which the alias pattern of the project at /ws
\* matches, was created below the build-output directory of that project
\* and its event was handled
C2_Witness ==
    /\ Len(last) > 0
    /\ lastEvent = [act |-> "CreateFile", arg |-> FileDistZ]
    /\ folderName(WsPath) \in DOMAIN maps[cur]
    /\ WsPath \in DOMAIN maps[cur][folderName(WsPath)].tsProjectByPath
    /\ ProjDist \in outDirs(maps[cur][folderName(WsPath)])
    /\ matchPathPatternForProject(WsPath,
            maps[cur][folderName(WsPath)].tsProjectByPath[WsPath], FileDistZ) # Null

\* the file is indexed by the workspaces the service holds
indexed(f) == \E name \in DOMAIN maps[cur] : f \in mentioned(maps[cur][name])

\* this.workspaceByName after the deleted event and then the created event
\* of one path
deletedThenCreated(workspaceByName, uriPath) ==
    handleFileCreated(handleFileDeleted(workspaceByName, uriPath).workspaceByName,
                      uriPath).workspaceByName

\* C3: wherever an event can be delivered, the deleted event of an indexed
\* file followed by the created event of the same path leaves every index
\* and the owner map with the records they had before
C3_DeleteThenCreateRestores ==
    (serial => Len(tasks) = 0) =>
        \A f \in AllFiles :
            indexed(f) => canon(deletedThenCreated(maps[cur], f)) = canon(maps[cur])

\* C3 witness: foo_bar.ts was deleted and created again, and is indexed
C3_Witness ==
    /\ last = <<[act |-> "DeleteFile", arg |-> FileFooBar],
                [act |-> "CreateFile", arg |-> FileFooBar]>>
    /\ indexed(FileFooBar)
    /\ handleFileDeleted(maps[cur], FileFooBar).kind = "update"
    /\ handleFileDeleted(maps[cur], FileFooBar).workspaceByName # maps[cur]

\* C4: once the deleted event of a tsconfig.json has been handled and no
\* build is in flight, no query from a file owned by the removed project is
\* answered with records
C4_NoStaleRecordsAfterConfigDeleted ==
    (Len(last) > 0 /\ lastEvent.act = "DeleteConfig" /\ Len(tasks) = 0) =>
        \A name \in DOMAIN maps[cur] :
            \A f \in DOMAIN maps[cur][name].ownerTsProjectPathByTsFilePath :
                maps[cur][name].ownerTsProjectPathByTsFilePath[f] = lastEvent.arg =>
                    \A query \in Queries :
                        getModulesForCompletion(maps[cur], f, query).modules = <<>>

\* C5: every created, changed or deleted event of a tsconfig.json starts a
\* reset that rebuilds every workspace folder tracked
C5_ConfigEventResets ==
    [][(eventStep /\ last'[Len(last')].act \in ConfigEvents /\ trackedFolders # <<>>) =>
            /\ Len(tasks') = Len(tasks) + 1
            /\ tasks'[Len(tasks')].kind = "reset"
            /\ tasks'[Len(tasks')].todo = trackedFolders]_vars

\* the workspace is one complete build with its incremental updates: its
\* projects are the ones of its build, the owner of every file it mentions
\* is computed from those projects, and every project holds for every file
\* mentioned the record its own configuration gives, and no other record
coherent(workspace) ==
    LET roots == {workspace.order[i] : i \in DOMAIN workspace.order}
        owners == workspace.ownerTsProjectPathByTsFilePath
    IN  /\ DOMAIN workspace.tsProjectByPath = roots
        /\ \A f \in mentioned(workspace) :
              LET owner == findOwnerTsProjectForTsFile(f, workspace.order)
              IN  IF owner = Null THEN f \notin DOMAIN owners
                  ELSE f \in DOMAIN owners /\ owners[f] = owner
        /\ \A p \in roots : \A f \in mentioned(workspace) :
              LET tsProject == workspace.tsProjectByPath[p]
                  evalResult == evaluateModuleForTsProject(p, tsProject, f)
                  bare == {kr \in recordsOf(tsProject.modulesForBareImportByQueryFirstChar) :
                              kr[2].tsFilePath = f}
                  rel == {kr \in recordsOf(tsProject.modulesForRelativeImportByQueryFirstChar) :
                              kr[2].tsFilePath = f}
              IN  /\ bare = IF evalResult.type = "bareImport"
                            THEN {<<firstChar(evalResult.moduleName),
                                    [moduleName |-> evalResult.moduleName,
                                     importPath |-> evalResult.importPath,
                                     tsFilePath |-> f]>>}
                            ELSE {}
                  /\ rel = IF evalResult.type = "relativeImport"
                           THEN {<<firstChar(evalResult.moduleName),
                                   [moduleName |-> evalResult.moduleName,
                                    tsFilePath |-> f]>>}
                           ELSE {}

\* C6: what a query can read is, for every folder, one complete build with
\* its incremental updates, at every point of every rebuild
C6_ReadersSeeCompleteState ==
    \A name \in DOMAIN maps[cur] : coherent(maps[cur][name])

\* C6 witness: a query is answered with records while the reset that
\* rebuilds the folder it reads has read the configurations and awaits the
\* enumeration of the files
C6_Witness ==
    /\ \E i \in DOMAIN tasks :
            /\ tasks[i].kind = "reset"
            /\ tasks[i].pc = "enum"
            /\ folderName(building(i)) \in DOMAIN maps[cur]
            /\ getWorkspaceFolderFromUri(qres.uri) = building(i)
    /\ qres.result.modules # <<>>

\* C7: while a build is in flight no event changes the workspaces or starts
\* another build
C7_EventsSerialized ==
    [][(Len(tasks) > 0 /\ eventStep) =>
            (maps' = maps /\ cur' = cur /\ tasks' = tasks)]_vars

\* the roots that are a prefix of the path
prefixRoots(uriPath, tsProjectPaths) ==
    {tsProjectPaths[i] : i \in {j \in DOMAIN tsProjectPaths :
                                    startsWith(uriPath, tsProjectPaths[j])}}

\* C8: the owner returned is a root that is a prefix of the file path such
\* that no root that is a prefix is longer or deeper, and none is returned
\* when no root is a prefix
C8_OwnerIsDeepestPrefixRoot ==
    (call.fn = "findOwnerTsProjectForTsFile" /\ ret.returned) =>
        LET candidates == prefixRoots(call.uriPath, call.tsProjectPaths)
        IN  IF candidates = {} THEN ret.value = Null
            ELSE /\ ret.value \in candidates
                 /\ \A r \in candidates :
                        /\ Len(r) <= Len(ret.value)
                        /\ Len(splitSegs(r)) <= Len(splitSegs(ret.value))

\* C8 witness: with the roots /ws/a and /ws/a/b the owner of /ws/a/b/x.ts
\* has been computed, and it is /ws/a/b
C8_Witness ==
    /\ call.fn = "findOwnerTsProjectForTsFile"
    /\ call.uriPath = FileABX
    /\ call.tsProjectPaths = <<ProjA, ProjAB>>
    /\ ret.returned
    /\ ret.value = ProjAB

\* C9: the owner returned is the root of a directory that holds the file
C9_OwnerIsAncestor ==
    (call.fn = "findOwnerTsProjectForTsFile" /\ ret.returned /\ ret.value # Null) =>
        isUnder(call.uriPath, ret.value)

\* the records of a bucket that are not of the current file
others(modules, uriPath) ==
    LET other(module) == module.tsFilePath # uriPath
    IN  SelectSeq(modules, other)

\* the answer holds one entry for every record of the two buckets, bare
\* imports first
answersBuckets(modules, bare, rel) ==
    /\ Len(modules) = Len(bare) + Len(rel)
    /\ \A i \in DOMAIN bare :
            modules[i] = [moduleName |-> bare[i].moduleName,
                          importPath |-> bare[i].importPath]
    /\ \A i \in DOMAIN rel :
            modules[Len(bare) + i].moduleName = rel[i].moduleName

\* the query answered last was asked from a file that has an owner project
\* in the workspace of its folder
queryOwned(name) ==
    /\ qres # NoQuery
    /\ name \in DOMAIN maps[cur]
    /\ getWorkspaceFolderFromUri(qres.uri) # Null
    /\ folderName(getWorkspaceFolderFromUri(qres.uri)) = name
    /\ qres.uri \in DOMAIN maps[cur][name].ownerTsProjectPathByTsFilePath
    /\ maps[cur][name].ownerTsProjectPathByTsFilePath[qres.uri]
            \in DOMAIN maps[cur][name].tsProjectByPath

\* the project that owns the file of the query answered last
queryProject(name) ==
    maps[cur][name].tsProjectByPath[
        maps[cur][name].ownerTsProjectPathByTsFilePath[qres.uri]]

\* C10: a query from a file with an owner project is answered with one
\* entry for every record of the bare-import and of the relative-import
\* bucket of that project at the first character of the prefix, the records
\* of the file itself left out, and with nothing else
C10_QueryAnswersOwnerBuckets ==
    \A name \in DOMAIN maps[cur] :
        queryOwned(name) =>
            /\ ~qres.result.threw
            /\ answersBuckets(qres.result.modules,
                    others(bucketAt(queryProject(name).modulesForBareImportByQueryFirstChar,
                                    firstChar(qres.query)), qres.uri),
                    others(bucketAt(queryProject(name).modulesForRelativeImportByQueryFirstChar,
                                    firstChar(qres.query)), qres.uri))

\* the owner map of the workspace names a project for the file
hasOwner(workspaceByName, uriPath) ==
    LET folder == getWorkspaceFolderFromUri(uriPath)
    IN  /\ folder # Null
        /\ folderName(folder) \in DOMAIN workspaceByName
        /\ uriPath \in DOMAIN
                workspaceByName[folderName(folder)].ownerTsProjectPathByTsFilePath

\* C11: a query from any file returns a list and never throws, the list is
\* empty when the folder or the owner project of the file is not found, and
\* every owner of the owner map is a key of the project map of its folder
C11_QueryNeverThrows ==
    /\ \A f \in AllFiles : \A query \in Queries :
            LET result == getModulesForCompletion(maps[cur], f, query)
            IN  /\ ~result.threw
                /\ ~hasOwner(maps[cur], f) => result.modules = <<>>
    /\ \A name \in DOMAIN maps[cur] :
            \A f \in DOMAIN maps[cur][name].ownerTsProjectPathByTsFilePath :
                maps[cur][name].ownerTsProjectPathByTsFilePath[f]
                    \in DOMAIN maps[cur][name].tsProjectByPath

\* C11 witness: a query from a file with an owner was answered with modules
\* by the lookup of the owner project, while a file of a folder the editor
\* does not hold and an indexed file without owner map entry have no owner
C11_Witness ==
    /\ qres # NoQuery
    /\ hasOwner(maps[cur], qres.uri)
    /\ qres.result.modules # <<>>
    /\ \E f \in AllFiles : getWorkspaceFolderFromUri(f) = Null

\* the path lies in no workspace folder of the editor, or its workspace
\* folder has no workspace in this.workspaceByName
untracked(uriPath) ==
    LET folder == getWorkspaceFolderFromUri(uriPath)
    IN  folder = Null \/ folderName(folder) \notin DOMAIN maps[cur]

\* the event delivered by the step
stepEvent == last'[Len(last')]

\* C12: a created or deleted event of a file or directory that belongs to no
\* tracked workspace folder changes no workspace and starts no build
C12_UntrackedFileEventDropped ==
    [][(/\ eventStep
        /\ stepEvent.act \in {"CreateFile", "DeleteFile", "DeleteDir"}
        /\ untracked(stepEvent.arg)) =>
            (maps' = maps /\ cur' = cur /\ tasks' = tasks)]_vars

\* C12 witness: the first call of the service was the created event of a
\* file, delivered while the build of the constructor was in flight and the
\* folder of the file had no workspace yet; the build is still in flight
C12_Witness ==
    /\ nev = 1
    /\ last = <<[act |-> "CreateFile", arg |-> FileAbY]>>
    /\ FileAbY \in files
    /\ Len(tasks) = 1
    /\ untracked(FileAbY)

\* a build of the folder is in flight
inFlight(folder) ==
    \E i \in DOMAIN tasks : \E k \in DOMAIN tasks[i].todo : tasks[i].todo[k] = folder

\* the query answered last was asked from a file the service does not skip
querySkipped(name) ==
    \/ includes(qres.uri, NodeModulesSlash)
    \/ isFileInOutDir(qres.uri, maps[cur][name].tsProjectByPath)

\* the answer to a query from a file of a folder with a build in flight is
\* empty when this.workspaceByName holds no workspace of the folder and is
\* otherwise read from the buckets of the workspace it holds
servedFromInstalled ==
    \A folder \in editorFolders :
        (/\ qres # NoQuery
         /\ getWorkspaceFolderFromUri(qres.uri) = folder
         /\ inFlight(folder)) =>
            IF folderName(folder) \notin DOMAIN maps[cur]
            THEN qres.result = [threw |-> FALSE, modules |-> <<>>]
            ELSE (queryOwned(folderName(folder)) /\ ~querySkipped(folderName(folder))) =>
                    /\ ~qres.result.threw
                    /\ answersBuckets(qres.result.modules,
                          others(bucketAt(queryProject(folderName(folder))
                                            .modulesForBareImportByQueryFirstChar,
                                          firstChar(qres.query)), qres.uri),
                          others(bucketAt(queryProject(folderName(folder))
                                            .modulesForRelativeImportByQueryFirstChar,
                                          firstChar(qres.query)), qres.uri))

\* the step answers a query
queryStep == nev' = nev + 1 /\ qres' # NoQuery

\* C13: a query asked while a build is in flight is answered in its own
\* step, which neither advances nor starts a build and changes no workspace,
\* and its answer is read from the state installed for the folder: empty
\* when there is none yet
C13_QueryServedDuringBuild ==
    /\ []servedFromInstalled
    /\ [][(queryStep /\ Len(tasks) > 0) =>
                (maps' = maps /\ cur' = cur /\ tasks' = tasks)]_vars

\* C13 witness: a reset that rebuilds the folder awaits the discovery of the
\* configurations, and a query from a file of that folder was answered with
\* modules of the workspace installed before
C13_Witness ==
    /\ qres # NoQuery
    /\ \E i \in DOMAIN tasks :
            /\ tasks[i].pc = "discover"
            /\ building(i) = getWorkspaceFolderFromUri(qres.uri)
    /\ inFlight(getWorkspaceFolderFromUri(qres.uri))
    /\ folderName(getWorkspaceFolderFromUri(qres.uri)) \in DOMAIN maps[cur]
    /\ qres.result.modules # <<>>

\* evaluateModuleForTsProject has returned for a project with the paths
\* {"@/*": ["src/*"]} and without baseUrl
evaluatedSrcAlias ==
    /\ call.fn = "evaluateModuleForTsProject"
    /\ ret.returned
    /\ call.tsProject.tsConfigJson.paths = SrcAliasPaths
    /\ call.tsProject.tsConfigJson.baseUrl = Null

\* the last segment of a path
lastSegment(path) == splitSegs(path)[Len(splitSegs(path))]

\* C14: for the project at the workspace root with the alias "@/*" ->
\* ["src/*"] and no baseUrl, every file /ws/src/<rest>.ts is a bare import
\* with the import path "@/<rest>" and the camelCase of its base name as
\* module name; /ws/src/foo_bar.ts gives @/foo_bar and fooBar
C14_SrcAliasResolvesBare ==
    (evaluatedSrcAlias /\ call.tsProjectPath = WsPath) =>
        /\ \A i \in DOMAIN RestSeq :
                call.moduleUri = srcFile(RestSeq[i]) =>
                    ret.value = [type |-> "bareImport",
                                 moduleName |-> camelCase(lastSegment(RestSeq[i])),
                                 importPath |-> <<"@", "/">> \o RestSeq[i]]
        /\ call.moduleUri = FileFooBar =>
                /\ ret.value.importPath = <<"@", "/", "f", "o", "o", "_", "b", "a", "r">>
                /\ ret.value.moduleName = <<"f", "o", "o", "B", "a", "r">>

\* C14 witness: /ws/src/a/b/c_d.ts, three directories below the root, has
\* been evaluated for that project
C14_Witness ==
    /\ evaluatedSrcAlias
    /\ call.tsProjectPath = WsPath
    /\ call.moduleUri = <<"/", "w", "s", "/", "s", "r", "c", "/", "a", "/", "b", "/", "c", "_", "d", ".", "t", "s">>
    /\ ret.value.type = "bareImport"

\* the base name of a .ts file without its extension
baseNameOfTs(path) == SubSeq(lastSegment(path), 1, Len(lastSegment(path)) - Len(DotTs))

\* C15: for a project with the alias "@/*" -> ["src/*"] and no baseUrl, a
\* file below the project root and outside its src directory is a relative
\* import named after its base name; /ws/lib/baz.ts is one, named baz
C15_OutsideSrcIsRelative ==
    (/\ evaluatedSrcAlias
     /\ isUnder(call.moduleUri, call.tsProjectPath)
     /\ ~isUnder(call.moduleUri, call.tsProjectPath \o <<"/", "s", "r", "c">>)) =>
        /\ ret.value = [type |-> "relativeImport",
                        moduleName |-> camelCase(baseNameOfTs(call.moduleUri))]
        /\ call.moduleUri = FileLibBaz => ret.value.moduleName = <<"b", "a", "z">>

\* C15 witness: /ws/lib/baz.ts has been evaluated for the project at /ws
\* with that alias
C15_Witness ==
    /\ evaluatedSrcAlias
    /\ call.tsProjectPath = WsPath
    /\ call.moduleUri = FileLibBaz
    /\ ret.value.type = "relativeImport"

\* the pattern with its first wildcard replaced by the segment; a pattern
\* without wildcard is left as it is
substitute(pattern, segment) ==
    IF includes(pattern, <<"*">>)
    THEN SubSeq(pattern, 1, indexOfChar(pattern, "*") - 1) \o segment
         \o sliceFrom(pattern, indexOfChar(pattern, "*"))
    ELSE pattern

\* the contiguous parts of a path, the empty one included
segmentsOf(path) ==
    {SubSeq(path, i, j) : i \in 1..(Len(path) + 1), j \in 0..Len(path)}

\* the index of the (pattern, mapping) pair of the project that matches the
\* module first, 0 when none matches
matchingPair(tsProjectPath, tsProject, moduleUri) ==
    LET pairs == pathPairs(objectEntries(tsProject.tsConfigJson.paths))
        matches(k) ==
            matchPair(pairs[k][1], pairs[k][2], resolve(tsProjectPath, <<".">>),
                      tsProject.workspaceFolder,
                      relative(tsProject.workspaceFolder, moduleUri)) # Null
    IN  IF \E k \in DOMAIN pairs : matches(k)
        THEN CHOOSE k \in DOMAIN pairs : matches(k) /\ \A j \in 1..(k - 1) : ~matches(j)
        ELSE 0

\* C16: when an alias entry with a wildcard gives a file its import path,
\* the import path is the alias pattern with the wildcard replaced by some
\* segment, and the target of the entry, relative to the workspace folder,
\* with its wildcard replaced by the same segment is the path of the file
\* relative to the workspace folder (the extension, which import paths do
\* not carry, left aside)
C16_WildcardRoundTrip ==
    (/\ call.fn = "evaluateModuleForTsProject"
     /\ ret.returned
     /\ call.tsProject.tsConfigJson.paths # NullPaths
     /\ call.tsProject.tsConfigJson.baseUrl = Null
     /\ matchingPair(call.tsProjectPath, call.tsProject, call.moduleUri) # 0) =>
        LET pair == pathPairs(objectEntries(call.tsProject.tsConfigJson.paths))[
                        matchingPair(call.tsProjectPath, call.tsProject, call.moduleUri)]
            target == relative(call.tsProject.workspaceFolder,
                               resolve(call.tsProjectPath, pair[2]))
            filePath == relative(call.tsProject.workspaceFolder, call.moduleUri)
        IN  includes(pair[1], <<"*">>) =>
                /\ ret.value.type = "bareImport"
                /\ \E segment \in segmentsOf(filePath) :
                        /\ ret.value.importPath = substitute(pair[1], segment)
                        /\ substitute(target, segment) \in {filePath, pathWithoutExt(filePath)}

\* the import path the paths mapping gives the module of the call, Null
\* when no entry matches
aliasPath == matchPathPatternForProject(call.tsProjectPath, call.tsProject, call.moduleUri)

\* the import path the baseUrl gives the module of the call, Null when
\* there is no baseUrl, the module is not below it, or the path conflicts
\* with the paths mapping
baseUrlPath ==
    LET tsConfigJson == call.tsProject.tsConfigJson
    IN  IF tsConfigJson.baseUrl = Null THEN Null
        ELSE IF ~startsWith(call.moduleUri, resolve(call.tsProjectPath, tsConfigJson.baseUrl))
        THEN Null
        ELSE IF doesImportPathViaBaseUrlConflictWithPathsMapping(
                    relative(resolve(call.tsProjectPath, tsConfigJson.baseUrl),
                             call.moduleUri), tsConfigJson)
        THEN Null
        ELSE relative(resolve(call.tsProjectPath, tsConfigJson.baseUrl), call.moduleUri)

\* the files with a record in an index
filesOf(index) == {kr[2].tsFilePath : kr \in recordsOf(index)}

\* C17: the resolution of a file for a project is the alias when an alias
\* matches, otherwise the base directory when it resolves, otherwise the
\* relative import when the file is below the project root, otherwise none;
\* and in every state of the service no file has a record in the
\* bare-import index and in the relative-import index of the same project
C17_OneResolutionInOrder ==
    /\ (call.fn = "evaluateModuleForTsProject" /\ ret.returned) =>
            /\ aliasPath # Null =>
                    /\ ret.value.type = "bareImport"
                    /\ ret.value.importPath = pathWithoutExt(aliasPath)
            /\ (aliasPath = Null /\ baseUrlPath # Null) =>
                    /\ ret.value.type = "bareImport"
                    /\ ret.value.importPath = pathWithoutExt(baseUrlPath)
            /\ (aliasPath = Null /\ baseUrlPath = Null) =>
                    ret.value.type = IF startsWith(call.moduleUri, call.tsProjectPath)
                                     THEN "relativeImport" ELSE "importDisallowed"
    /\ \A id \in MapIds : \A name \in DOMAIN maps[id] :
            \A p \in DOMAIN maps[id][name].tsProjectByPath :
                filesOf(maps[id][name].tsProjectByPath[p].modulesForBareImportByQueryFirstChar)
                \cap filesOf(maps[id][name].tsProjectByPath[p]
                                .modulesForRelativeImportByQueryFirstChar) = {}

\* C17 witness: /ws/src/foo_bar.ts has been resolved for a project whose
\* alias and whose baseUrl both give it an import path, and the alias won
C17_Witness ==
    /\ call.fn = "evaluateModuleForTsProject"
    /\ ret.returned
    /\ call.moduleUri = FileFooBar
    /\ aliasPath # Null
    /\ baseUrlPath # Null
    /\ ret.value.importPath = <<"@", "/", "f", "o", "o", "_", "b", "a", "r">>

\* the step is the failure of the discovery of the configurations or of the
\* enumeration of the files of the folder that task i builds
folderFails(i) ==
    /\ nfault' = nfault + 1
    /\ tasks[i].pc \in {"discover", "enum"}
    /\ \/ tasks' = removeAt(tasks, i)
       \/ Len(tasks') = Len(tasks) /\ tasks'[i] # tasks[i]

\* C18: when the discovery or the enumeration fails for a folder, no
\* workspace is set for that folder and what the batch has built so far is
\* kept; the batch goes on with its next folder, and after its last folder
\* the call ends as after a success: the folders to delete are deleted and
\* a reset installs its Map
C18_FailedFolderSkipped ==
    [][\A i \in DOMAIN tasks :
        folderFails(i) =>
            LET t == tasks[i]
                kept == [n \in (DOMAIN maps[t.target]) \ {folderName(f) : f \in t.del}
                            |-> maps[t.target][n]]
            IN  IF Len(t.todo) > 1
                THEN /\ Len(tasks') = Len(tasks)
                     /\ tasks'[i].todo = Tail(t.todo)
                     /\ tasks'[i].pc = "discover"
                     /\ maps'[t.target] = maps[t.target]
                     /\ cur' = cur
                ELSE /\ tasks' = removeAt(tasks, i)
                     /\ cur' = (IF t.kind = "reset" THEN t.target ELSE cur)
                     /\ t.target = cur' => maps'[cur'] = kept
                     /\ t.target # cur' => maps'[cur'] = maps[cur]]_vars

\* C18 witness: a reset of the two folders /ws and /w2, both built before,
\* failed for /ws, set no workspace for it, and goes on with /w2
C18_Witness ==
    /\ nfault = 1
    /\ folderName(WsPath) \in DOMAIN maps[cur]
    /\ \E i \in DOMAIN tasks :
            /\ tasks[i].kind = "reset"
            /\ tasks[i].todo = <<W2Path>>
            /\ tasks[i].pc = "discover"
            /\ folderName(WsPath) \notin DOMAIN maps[tasks[i].target]

\* the removal of the folder from the editor has been handled to its end:
\* the editor does not hold the folder and no call of
\* handleWorkspaceChangedAsync that deletes it is still in flight
removed(folder) ==
    /\ folder \notin editorFolders
    /\ \A i \in DOMAIN tasks : folder \notin tasks[i].del

\* C19: a workspace folder whose removal has been handled has no workspace
\* in this.workspaceByName, and a query from any of its files is answered
\* with nothing, also when a build that included the folder started before
\* the removal and ends after it
C19_RemovedFolderHasNoState ==
    \A folder \in Folders :
        removed(folder) =>
            /\ folderName(folder) \notin DOMAIN maps[cur]
            /\ \A f \in AllFiles : \A query \in Queries :
                    isUnder(f, folder) =>
                        getModulesForCompletion(maps[cur], f, query).modules = <<>>

\* the step in which the build of the first folder of task i ends with a
\* workspace made and set
folderBuilt(i) ==
    /\ tasks[i].pc = "enum"
    /\ nfault' = nfault
    /\ \/ tasks' = removeAt(tasks, i)
       \/ Len(tasks') = Len(tasks) /\ tasks'[i] # tasks[i]
    /\ building(i) \in editorFolders
    /\ folderName(building(i)) \in DOMAIN maps'[tasks[i].target]

\* the index of tsProject holds a record of the file under the first
\* character of its module name
recorded(tsProject, tsFilePath) ==
    LET key == firstChar(makeModuleName(tsFilePath))
        holds(bucket) == \E k \in 1..Len(bucket) :
                            /\ bucket[k].tsFilePath = tsFilePath
                            /\ bucket[k].moduleName = makeModuleName(tsFilePath)
    IN  \/ holds(bucketAt(tsProject.modulesForBareImportByQueryFirstChar, key))
        \/ holds(bucketAt(tsProject.modulesForRelativeImportByQueryFirstChar, key))

\* the answer to a query holds the module of the file
offered(answer, tsFilePath) ==
    \E k \in 1..Len(answer) : answer[k].moduleName = makeModuleName(tsFilePath)

\* C20: when the build of a workspace folder succeeds, every file it
\* enumerated is recorded (bare or relative) in the index of every project
\* whose directory contains it, and a query from another file owned by
\* such a project, with a text starting with the first character of the
\* file's module name, returns the file
C20_EveryFileOffered ==
    [][\A i \in DOMAIN tasks :
        folderBuilt(i) =>
            LET workspaceByName == maps'[tasks[i].target]
                workspace == workspaceByName[folderName(building(i))]
                uris == findTsFiles(building(i), tasks[i].read)
            IN  \A k \in 1..Len(uris) :
                \A tsProjectPath \in DOMAIN workspace.tsProjectByPath :
                    isUnder(uris[k], tsProjectPath) =>
                        /\ recorded(workspace.tsProjectByPath[tsProjectPath], uris[k])
                        /\ \A current \in DOMAIN workspace.ownerTsProjectPathByTsFilePath :
                           \A query \in Queries :
                                /\ current # uris[k]
                                /\ workspace.ownerTsProjectPathByTsFilePath[current] = tsProjectPath
                                /\ firstChar(query) = firstChar(makeModuleName(uris[k]))
                                => offered(getModulesForCompletion(workspaceByName, current, query).modules,
                                           uris[k])]_vars

\* the positions (bucket key, place) of the records of a file in an index
placesOf(index, tsFilePath) ==
    {p \in UNION {{<<key, k>> : k \in DOMAIN index[key]} : key \in DOMAIN index} :
        index[p[1]][p[2]].tsFilePath = tsFilePath}

\* the file paths that have a record in an index
pathsIn(index) ==
    UNION {{index[key][k].tsFilePath : k \in DOMAIN index[key]} : key \in DOMAIN index}

\* the index of project tsProjectPath holds for the file what the resolver
\* reports: one bare record, one relative record, or nothing
asResolved(tsProjectPath, tsProject, tsFilePath) ==
    LET evalResult == evaluateModuleForTsProject(tsProjectPath, tsProject, tsFilePath)
        bare == placesOf(tsProject.modulesForBareImportByQueryFirstChar, tsFilePath)
        rel == placesOf(tsProject.modulesForRelativeImportByQueryFirstChar, tsFilePath)
    IN  /\ evalResult.type = "bareImport" =>
            /\ rel = {} /\ Cardinality(bare) = 1
            /\ \A p \in bare :
                    tsProject.modulesForBareImportByQueryFirstChar[p[1]][p[2]] =
                        [moduleName |-> evalResult.moduleName,
                         importPath |-> evalResult.importPath,
                         tsFilePath |-> tsFilePath]
        /\ evalResult.type = "relativeImport" =>
            /\ bare = {} /\ Cardinality(rel) = 1
            /\ \A p \in rel :
                    tsProject.modulesForRelativeImportByQueryFirstChar[p[1]][p[2]] =
                        [moduleName |-> evalResult.moduleName, tsFilePath |-> tsFilePath]
        /\ evalResult.type = "importDisallowed" => bare = {} /\ rel = {}

\* the workspace is what a build of the discovered projects and the
\* enumerated files has to give
builtRight(workspace, tsConfigJsonWithPaths, uris) ==
    LET roots == {tsConfigJsonWithPaths[i].tsProjectPath : i \in DOMAIN tsConfigJsonWithPaths}
        enumerated == {uris[k] : k \in DOMAIN uris}
        ownerOf(f) == findOwnerTsProjectForTsFile(f, workspace.order)
    IN  /\ DOMAIN workspace.tsProjectByPath = roots
        /\ \A tsProjectPath \in roots :
                LET tsProject == workspace.tsProjectByPath[tsProjectPath]
                IN  /\ \A f \in enumerated : asResolved(tsProjectPath, tsProject, f)
                    /\ pathsIn(tsProject.modulesForBareImportByQueryFirstChar)
                            \subseteq enumerated
                    /\ pathsIn(tsProject.modulesForRelativeImportByQueryFirstChar)
                            \subseteq enumerated
        /\ DOMAIN workspace.ownerTsProjectPathByTsFilePath =
                {f \in enumerated : ownerOf(f) # Null}
        /\ \A f \in DOMAIN workspace.ownerTsProjectPathByTsFilePath :
                workspace.ownerTsProjectPathByTsFilePath[f] = ownerOf(f)

\* C21: the workspace a successful build makes holds, for every discovered
\* project and every enumerated file, exactly one record of the file in the
\* project's index when the resolver reports the file importable from the
\* project (also for a file of another project reached through an alias)
\* and none otherwise, and its file->owner map maps exactly the enumerated
\* files that have an owner, each to its owner
C21_BuildIndexesWhatResolves ==
    /\ [](call.fn = "makeWorkspaceAsync" /\ ret.returned =>
            builtRight(ret.value, call.tsConfigJsonWithPaths, call.uris))
    /\ [][\A i \in DOMAIN tasks :
            folderBuilt(i) =>
                builtRight(maps'[tasks[i].target][folderName(building(i))],
                           tasks[i].read, findTsFiles(building(i), tasks[i].read))]_vars

\* a build has indexed a file of the project at /ws as a bare import of the
\* project at /ws/a, which reaches it through its alias
C21_Witness ==
    /\ call.fn = "makeWorkspaceAsync" /\ ret.returned
    /\ ProjA \in DOMAIN ret.value.tsProjectByPath
    /\ FileFooBar \in DOMAIN ret.value.ownerTsProjectPathByTsFilePath
    /\ ret.value.ownerTsProjectPathByTsFilePath[FileFooBar] = WsPath
    /\ placesOf(ret.value.tsProjectByPath[ProjA].modulesForBareImportByQueryFirstChar,
                FileFooBar) # {}
    /\ Len(call.uris) > 2

\* the keys of the buckets holding a record of the file
bucketsOf(index, tsFilePath) == {p[1] : p \in placesOf(index, tsFilePath)}

\* C22: in every state every record of every project index lies in the
\* bucket whose key is the first character of its module name, and the
\* records of one file lie in one bucket only
C22_RecordInBucketOfFirstChar ==
    \A id \in MapIds : \A name \in DOMAIN maps[id] :
    \A tsProjectPath \in DOMAIN maps[id][name].tsProjectByPath :
        LET tsProject == maps[id][name].tsProjectByPath[tsProjectPath]
            filed(index) ==
                /\ \A key \in DOMAIN index : \A k \in DOMAIN index[key] :
                        key = firstChar(index[key][k].moduleName)
                /\ \A f \in pathsIn(index) : Cardinality(bucketsOf(index, f)) = 1
        IN  /\ filed(tsProject.modulesForBareImportByQueryFirstChar)
            /\ filed(tsProject.modulesForRelativeImportByQueryFirstChar)

\* a created file has been added by its event to an index that holds
\* records under another key too
C22_Witness ==
    /\ Len(last) > 0 /\ last[Len(last)].act = "CreateFile"
    /\ \E name \in DOMAIN maps[cur] :
       \E tsProjectPath \in DOMAIN maps[cur][name].tsProjectByPath :
            LET index == maps[cur][name].tsProjectByPath[tsProjectPath]
                            .modulesForBareImportByQueryFirstChar
            IN  /\ placesOf(index, last[Len(last)].arg) # {}
                /\ \E key \in DOMAIN index :
                        /\ index[key] # <<>>
                        /\ key \notin bucketsOf(index, last[Len(last)].arg)

\* the step delivers the deleted event of the file to handleFileDeletedAsync
deletedStep(uriPath) ==
    /\ eventStep
    /\ stepEvent = [act |-> "DeleteFile", arg |-> uriPath]

\* the path lies in a node_modules directory or in the build-output
\* directory of a project of the workspace
excluded(workspace, uriPath) ==
    \/ includes(uriPath, NodeModulesSlash)
    \/ \E outDir \in outDirs(workspace) : uriPath = outDir \/ isUnder(uriPath, outDir)

\* C23: when the deleted event of an indexed .ts/.tsx file that is not
\* excluded has been handled, no index of the projects of its folder holds
\* a record with that file path and the file->owner map has no entry for it
C23_DeletedFileLeavesNoRecord ==
    [][\A f \in AllFiles : \A name \in DOMAIN maps[cur] :
        /\ deletedStep(f)
        /\ isTsFile(f)
        /\ getWorkspaceFolderFromUri(f) # Null
        /\ name = folderName(getWorkspaceFolderFromUri(f))
        /\ f \in mentioned(maps[cur][name])
        /\ ~excluded(maps[cur][name], f)
        => /\ name \in DOMAIN maps'[cur']
           /\ f \notin mentioned(maps'[cur'][name])]_vars

\* C24: in every state no index of a project holds two records with the
\* same file path
C24_OneRecordPerFile ==
    \A id \in MapIds : \A name \in DOMAIN maps[id] :
    \A tsProjectPath \in DOMAIN maps[id][name].tsProjectByPath :
        LET tsProject == maps[id][name].tsProjectByPath[tsProjectPath]
        IN  \A f \in AllFiles :
                /\ Cardinality(placesOf(tsProject.modulesForBareImportByQueryFirstChar, f)) <= 1
                /\ Cardinality(placesOf(tsProject.modulesForRelativeImportByQueryFirstChar, f)) <= 1

\* the two indices of a project
indicesOf(tsProject) ==
    {tsProject.modulesForBareImportByQueryFirstChar,
     tsProject.modulesForRelativeImportByQueryFirstChar}

\* the bucket of an index without the records of one file
bucketWithout(index, key, tsFilePath) ==
    LET other(module) == module.tsFilePath # tsFilePath
    IN  SelectSeq(index[key], other)

\* C25: two files of one project whose base names give the same module
\* name are two records of the same bucket, and the deleted event of one
\* of them removes its record and leaves the bucket with the record of
\* the other
C25_CollidingNamesKeptApart ==
    (call.fn = "handleFileDeletedAsync" /\ ret.returned) =>
        LET before == call.workspaceByName[folderName(WsPath)]
            f == call.uriPath
        IN  \A g \in (DOMAIN before.ownerTsProjectPathByTsFilePath) \ {f} :
            \A tsProjectPath \in DOMAIN before.tsProjectByPath :
                LET tsProject == before.tsProjectByPath[tsProjectPath]
                    evalF == evaluateModuleForTsProject(tsProjectPath, tsProject, f)
                    evalG == evaluateModuleForTsProject(tsProjectPath, tsProject, g)
                    key == firstChar(makeModuleName(f))
                    pick(p) == IF evalF.type = "bareImport"
                               THEN p.modulesForBareImportByQueryFirstChar
                               ELSE p.modulesForRelativeImportByQueryFirstChar
                IN  /\ f \in DOMAIN before.ownerTsProjectPathByTsFilePath
                    /\ makeModuleName(f) = makeModuleName(g)
                    /\ evalF.type = evalG.type
                    /\ evalF.type # "importDisallowed"
                    => /\ bucketsOf(pick(tsProject), f) = {key}
                       /\ bucketsOf(pick(tsProject), g) = {key}
                       /\ Len(pick(tsProject)[key]) >= 2
                       /\ ret.value.kind = "update"
                       /\ LET after == ret.value.workspaceByName[folderName(WsPath)]
                                            .tsProjectByPath[tsProjectPath]
                          IN  /\ placesOf(pick(after), f) = {}
                              /\ pick(after)[key] = bucketWithout(pick(tsProject), key, f)
                              /\ Cardinality(placesOf(pick(after), g)) = 1

\* foo_bar.ts was deleted from a project whose bucket "f" held the bare
\* records of foo_bar.ts and of a/foo-bar.ts, and the record of
\* a/foo-bar.ts is left
C25_Witness ==
    /\ call.fn = "handleFileDeletedAsync" /\ ret.returned
    /\ call.uriPath = FileFooBar
    /\ WsPath \in DOMAIN call.workspaceByName[folderName(WsPath)].tsProjectByPath
    /\ LET index(w) == w[folderName(WsPath)].tsProjectByPath[WsPath]
                            .modulesForBareImportByQueryFirstChar
       IN  /\ placesOf(index(call.workspaceByName), FileFooBar) # {}
           /\ bucketsOf(index(call.workspaceByName), FileFooBar)
                = bucketsOf(index(call.workspaceByName), FileSrcAFooBar)
           /\ makeModuleName(FileFooBar) = makeModuleName(FileSrcAFooBar)
           /\ ret.value.kind = "update"
           /\ placesOf(index(ret.value.workspaceByName), FileSrcAFooBar) # {}
           /\ placesOf(index(ret.value.workspaceByName), FileFooBar) = {}

\* the step delivers the deleted event of a directory, or of a file without
\* extension, to handleFileDeletedAsync
directoryDeletedStep(uriPath) ==
    /\ eventStep
    /\ stepEvent = [act |-> "DeleteDir", arg |-> uriPath]

\* C26: when the deleted event of a path without extension that is not
\* excluded and prefixes no project root has been handled, no index of the
\* projects of its folder holds a record whose file path starts with that
\* path, and no key of the file->owner map starts with it
C26_DeletedDirectoryLeavesNoRecord ==
    [][\A d \in Dirs \cup {FilePlainFoo} : \A name \in DOMAIN maps[cur] :
        /\ directoryDeletedStep(d)
        /\ extname(d) = <<>>
        /\ getWorkspaceFolderFromUri(d) # Null
        /\ name = folderName(getWorkspaceFolderFromUri(d))
        /\ ~excluded(maps[cur][name], d)
        /\ \A tsProjectPath \in DOMAIN maps[cur][name].tsProjectByPath :
                ~startsWith(tsProjectPath, d)
        => /\ name \in DOMAIN maps'[cur']
           /\ \A f \in mentioned(maps'[cur'][name]) : ~startsWith(f, d)]_vars

\* the step starts a reset that builds the folder
resetStarted(folder) ==
    /\ Len(tasks') = Len(tasks) + 1
    /\ tasks'[Len(tasks')].kind = "reset"
    /\ \E k \in DOMAIN tasks'[Len(tasks')].todo : tasks'[Len(tasks')].todo[k] = folder

\* the step ends a reset with the build of its last folder
resetEnds(i) ==
    /\ tasks[i].kind = "reset"
    /\ tasks[i].pc = "enum"
    /\ nfault' = nfault
    /\ tasks' = removeAt(tasks, i)

\* C27: the deleted event of a path without extension that prefixes the
\* root of a known project of its folder starts a rebuild of the folder,
\* and when that rebuild ends no project of the folder has its root at or
\* under the deleted path and no index or owner map of the folder holds a
\* file under it
C27_DeletedProjectDirectoryRebuilds ==
    [][/\ \A d \in Dirs \cup {FilePlainFoo} : \A name \in DOMAIN maps[cur] :
            /\ directoryDeletedStep(d)
            /\ extname(d) = <<>>
            /\ getWorkspaceFolderFromUri(d) # Null
            /\ name = folderName(getWorkspaceFolderFromUri(d))
            /\ \E tsProjectPath \in DOMAIN maps[cur][name].tsProjectByPath :
                    startsWith(tsProjectPath, d)
            => resetStarted(getWorkspaceFolderFromUri(d))
       /\ \A i \in DOMAIN tasks :
            (resetEnds(i) /\ Len(last) > 0 /\ lastEvent.act = "DeleteDir") =>
                \A name \in DOMAIN maps'[cur'] :
                    /\ \A tsProjectPath \in DOMAIN maps'[cur'][name].tsProjectByPath :
                            /\ tsProjectPath # lastEvent.arg
                            /\ ~isUnder(tsProjectPath, lastEvent.arg)
                    /\ \A f \in mentioned(maps'[cur'][name]) :
                            ~isUnder(f, lastEvent.arg)]_vars

\* the directory /ws/a of a known project was deleted and the rebuild it
\* started has ended
C27_Witness ==
    /\ serial
    /\ last = <<[act |-> "DeleteDir", arg |-> ProjA]>>
    /\ Len(tasks) = 0
    /\ cur # 1
    /\ folderName(WsPath) \in DOMAIN maps[cur]
    /\ FileFooBar \in mentioned(maps[cur][folderName(WsPath)])
    /\ ProjA \notin DOMAIN maps[cur][folderName(WsPath)].tsProjectByPath

\* C28: the changed event of a path that is not a tsconfig.json changes no
\* Map of the service (projects, indices, owner maps) and starts no build
C28_SourceEditChangesNothing ==
    [][(eventStep /\ stepEvent.act = "ChangeFile"
            /\ basename(stepEvent.arg) # TsConfigName)
        => (maps' = maps /\ cur' = cur /\ tasks' = tasks)]_vars

\* the changed event of an indexed file was handled while its folder's
\* workspace was installed and no build was in flight
C28_Witness ==
    /\ Len(last) > 0
    /\ lastEvent = [act |-> "ChangeFile", arg |-> FileFooBar]
    /\ Len(tasks) = 0
    /\ indexed(FileFooBar)
    /\ trackedFolders # <<>>

\* the places, in the order the tsconfig.json writes its entries and their
\* targets, of the (pattern, target) pairs that match the module of the call
matchingPlaces ==
    LET pairs == pathPairs(call.tsProject.tsConfigJson.paths)
        baseUrl == IF call.tsProject.tsConfigJson.baseUrl = Null
                   THEN <<".">> ELSE call.tsProject.tsConfigJson.baseUrl
    IN  {k \in DOMAIN pairs :
            matchPair(pairs[k][1], pairs[k][2], resolve(call.tsProjectPath, baseUrl),
                      call.tsProject.workspaceFolder,
                      relative(call.tsProject.workspaceFolder, call.moduleUri)) # Null}

\* the import path the pair at a place gives the module of the call
importPathAt(k) ==
    LET pairs == pathPairs(call.tsProject.tsConfigJson.paths)
        baseUrl == IF call.tsProject.tsConfigJson.baseUrl = Null
                   THEN <<".">> ELSE call.tsProject.tsConfigJson.baseUrl
    IN  pathWithoutExt(
            matchPair(pairs[k][1], pairs[k][2], resolve(call.tsProjectPath, baseUrl),
                      call.tsProject.workspaceFolder,
                      relative(call.tsProject.workspaceFolder, call.moduleUri)))

\* C29: when pairs (pattern, target) of the alias map match a file, the
\* import path returned is the one of the pair that comes first in the
\* order the alias map is configured, entry by entry and target by target,
\* also when a later pair matches too
C29_FirstConfiguredPairWins ==
    (/\ call.fn = "evaluateModuleForTsProject"
     /\ ret.returned
     /\ call.tsProject.tsConfigJson.paths # NullPaths
     /\ matchingPlaces # {}) =>
        /\ ret.value.type = "bareImport"
        /\ \E k \in matchingPlaces :
                /\ \A j \in matchingPlaces : k <= j
                /\ ret.value.importPath = importPathAt(k)

\* the entries of an alias map without those that have the target that
\* must resolve nothing
withoutDummyEntries(paths) ==
    LET resolvable(entry) == \A i \in DOMAIN entry[2] : entry[2][i] # DummyValue
    IN  SelectSeq(paths, resolvable)

\* the alias map of the call has an entry whose target must resolve nothing
hasDummyEntry ==
    /\ call.tsProject.tsConfigJson.paths # NullPaths
    /\ withoutDummyEntries(call.tsProject.tsConfigJson.paths)
            # call.tsProject.tsConfigJson.paths

\* the evaluation of the module of the call when the matching step passes
\* over the entries that must resolve nothing; the fallbacks see the
\* configuration as it is
evaluatedWithoutDummyEntries ==
    LET tsProject == call.tsProject
        baseUrl == IF tsProject.tsConfigJson.baseUrl = Null
                   THEN <<".">> ELSE tsProject.tsConfigJson.baseUrl
        matchedPath ==
            firstMatch(pathPairs(objectEntries(withoutDummyEntries(tsProject.tsConfigJson.paths))),
                       resolve(call.tsProjectPath, baseUrl), tsProject.workspaceFolder,
                       relative(tsProject.workspaceFolder, call.moduleUri))
    IN  moduleEvaluation(makeModuleName(call.moduleUri),
                         bareImportPathFrom(matchedPath, call.tsProjectPath, tsProject,
                                            call.moduleUri),
                         call.tsProjectPath, call.moduleUri)

\* C30: an alias entry whose target is the value that means "resolve
\* nothing" gives no file an import path: the evaluation of a module is the
\* one that the other entries and the fallbacks give when the matching step
\* passes over that entry
C30_DummyEntryResolvesNothing ==
    (/\ call.fn = "evaluateModuleForTsProject"
     /\ ret.returned
     /\ hasDummyEntry) =>
        ret.value = evaluatedWithoutDummyEntries

\* the base directory of the project of the call: its baseUrl resolved
\* against its root
baseDirectory == resolve(call.tsProjectPath, call.tsProject.tsConfigJson.baseUrl)

\* the module of the call has been evaluated for a project with a baseUrl
\* and no alias matched it
evaluatedForFallback ==
    /\ call.fn = "evaluateModuleForTsProject"
    /\ ret.returned
    /\ call.tsProject.tsConfigJson.baseUrl # Null
    /\ aliasPath = Null

\* C31: when no alias matched and the base directory gives a file its bare
\* import path, the file lies under the base directory, the import path is
\* the path of the file relative to the base directory without its
\* extension, and it does not begin with ".."
C31_FallbackStaysInsideBaseDirectory ==
    (evaluatedForFallback /\ ret.value.type = "bareImport") =>
        /\ isUnder(call.moduleUri, baseDirectory)
        /\ ret.value.importPath = pathWithoutExt(relative(baseDirectory, call.moduleUri))
        /\ ~startsWith(ret.value.importPath, <<".", ".">>)

\* the path of the module of the call relative to the base directory starts
\* with the pattern of an alias of the project, its wildcard removed
collidesWithPattern ==
    /\ call.tsProject.tsConfigJson.paths # NullPaths
    /\ \E i \in DOMAIN call.tsProject.tsConfigJson.paths :
            startsWith(relative(baseDirectory, call.moduleUri),
                       replaceStar(call.tsProject.tsConfigJson.paths[i][1]))

\* C32: when no alias matched a file and its path relative to the base
\* directory starts with the pattern of an alias of the same project, the
\* wildcard removed, the base directory gives it no import path: the file
\* has no bare import path for that project
C32_CollidingFallbackRejected ==
    (evaluatedForFallback /\ collidesWithPattern) => ret.value.type # "bareImport"

\* C32 witness: /ws/lib/baz.ts, below the base directory /ws of a project
\* whose only alias has the pattern "lib/*" and matches nothing, has been
\* evaluated and is a relative import
C32_Witness ==
    /\ evaluatedForFallback
    /\ collidesWithPattern
    /\ call.tsProjectPath = WsPath
    /\ call.tsProject.tsConfigJson = CfgDummyBase
    /\ call.moduleUri = FileLibBaz
    /\ isUnder(call.moduleUri, baseDirectory)
    /\ ret.value.type = "relativeImport"

\* C33: a file is a relative import of a project only when it is inside the
\* root directory of the project; a file that no alias and no base directory
\* resolves and that is outside the root directory, also in a directory
\* beside it whose path starts with the path of the root, is not importable
C33_RelativeOnlyInsideRoot ==
    (call.fn = "evaluateModuleForTsProject" /\ ret.returned) =>
        /\ ret.value.type = "relativeImport" => isUnder(call.moduleUri, call.tsProjectPath)
        /\ (/\ aliasPath = Null
            /\ baseUrlPath = Null
            /\ ~isUnder(call.moduleUri, call.tsProjectPath)) =>
                ret.value.type = "importDisallowed"

\* the first (pattern, target) pair of the alias map of the call
firstPair == pathPairs(objectEntries(call.tsProject.tsConfigJson.paths))[1]

\* the target of the first pair resolved against the base directory
firstTarget ==
    resolve(resolve(call.tsProjectPath,
                    IF call.tsProject.tsConfigJson.baseUrl = Null
                    THEN <<".">> ELSE call.tsProject.tsConfigJson.baseUrl),
            firstPair[2])

\* the module of the call has been evaluated for a project whose first
\* alias has no wildcard in its pattern and its target
evaluatedPlainAlias ==
    /\ call.fn = "evaluateModuleForTsProject"
    /\ ret.returned
    /\ call.tsProject.tsConfigJson.paths # NullPaths
    /\ ~includes(firstPair[1], <<"*">>)
    /\ ~includes(firstPair[2], <<"*">>)

\* C34: an alias without wildcard whose target is the file gives the
\* pattern as import path; one whose target is a directory above the file
\* gives the pattern joined with the rest of the path of the file
C34_PlainAliasMatchesByPrefix ==
    evaluatedPlainAlias =>
        /\ call.moduleUri = firstTarget =>
                /\ ret.value.type = "bareImport"
                /\ ret.value.importPath = pathWithoutExt(firstPair[1])
        /\ isUnder(call.moduleUri, firstTarget) =>
                /\ ret.value.type = "bareImport"
                /\ ret.value.importPath =
                        pathWithoutExt(firstPair[1] \o <<"/">>
                                       \o relative(firstTarget, call.moduleUri))

\* C36: a folder added by a change of the workspace folders and built
\* without failure stays tracked: when every build in flight has ended, the
\* resets that were in flight when it was added included, this.workspaceByName
\* holds the workspace of the folder
C36_AddedFolderStaysTracked ==
    (/\ Len(tasks) = 0
     /\ nfault = 0
     /\ Len(last) > 0
     /\ lastEvent.act = "ChangeFolders") =>
        \A folder \in editorFolders :
            (\E k \in DOMAIN lastEvent.arg : lastEvent.arg[k] = folder) =>
                folderName(folder) \in DOMAIN maps[cur]

\* the two events delivered so far are changes of tsconfig.json files
twoConfigChanges ==
    /\ nev = 2
    /\ Len(last) = 2
    /\ \A k \in DOMAIN last : last[k].act = "ChangeConfig"

\* C37: after two changes of tsconfig.json files, the reset that ends last
\* while this.workspaceByName holds workspaces (the resets then in flight
\* were started by those changes) leaves installed the state of the reset
\* started last: the workspace of every folder is the one a build over the
\* configurations now on disk gives
C37_LastStartedResetWins ==
    [][\A i \in DOMAIN tasks :
            (/\ resetEnds(i)
             /\ Len(tasks) = 1
             /\ nfault = 0
             /\ twoConfigChanges
             /\ trackedFolders # <<>>) =>
                \A folder \in editorFolders :
                    /\ folderName(folder) \in DOMAIN maps'[cur']
                    /\ canonWorkspace(maps'[cur'][folderName(folder)])
                            = canonWorkspace(freshBuild(folder))]_vars

\* C38: a folder of the editor that this.workspaceByName lost because its
\* build failed is built again by the next event of a tsconfig.json: the
\* reset that the event starts has the folder among the folders it builds
C38_FailedFolderRebuiltOnConfigEvent ==
    [][\A folder \in editorFolders :
            (/\ eventStep
             /\ stepEvent.act \in ConfigEvents
             /\ stepEvent.arg = folder
             /\ Len(tasks) = 0
             /\ nfault > 0
             /\ folderName(folder) \notin DOMAIN maps[cur]) =>
                resetStarted(folder)]_vars

\* what a workspace holds about a file: its records in the indices of every
\* project and its entry in the owner map
recordsAbout(workspace, tsFilePath) ==
    [projects |->
        [tsProjectPath \in DOMAIN workspace.tsProjectByPath |->
            {kr \in recordsOf(workspace.tsProjectByPath[tsProjectPath]
                                .modulesForBareImportByQueryFirstChar)
                    \cup recordsOf(workspace.tsProjectByPath[tsProjectPath]
                                    .modulesForRelativeImportByQueryFirstChar) :
                kr[2].tsFilePath = tsFilePath}],
     owner |-> IF tsFilePath \in DOMAIN workspace.ownerTsProjectPathByTsFilePath
               THEN workspace.ownerTsProjectPathByTsFilePath[tsFilePath] ELSE Null]

\* C39: the deleted event of a directory leaves as they were the records
\* and the owner entry of every file that is not inside the directory, the
\* files whose path only starts with the characters of its path included
C39_DirectoryRemovalKeepsOtherFiles ==
    [][\A d \in Dirs : \A name \in DOMAIN maps[cur] : \A f \in AllFiles :
            (directoryDeletedStep(d) /\ ~isUnder(f, d)) =>
                /\ name \in DOMAIN maps'[cur']
                /\ recordsAbout(maps'[cur'][name], f) = recordsAbout(maps[cur][name], f)]_vars

\* the only event delivered so far is the event of the file
onlyEvent(act, f) == nev = 1 /\ last = <<[act |-> act, arg |-> f]>>

\* C35: a file-created or file-deleted event handled while a reset of its
\* folder is in flight is not lost: when the reset ends and installs its
\* state, a file created during the rebuild that a build of its folder
\* indexes is in the workspace of the folder, and a file deleted during the
\* rebuild is in no workspace
C35_NoLostUpdateAcrossRebuild ==
    [][\A i \in DOMAIN tasks : \A f \in AllFiles :
            (resetEnds(i) /\ Len(tasks) = 1 /\ nfault = 0) =>
                /\ \A folder \in editorFolders :
                        (/\ onlyEvent("CreateFile", f)
                         /\ isUnder(f, folder)
                         /\ f \in mentioned(freshBuild(folder))) =>
                            /\ folderName(folder) \in DOMAIN maps'[cur']
                            /\ f \in mentioned(maps'[cur'][folderName(folder)])
                /\ onlyEvent("DeleteFile", f) =>
                        \A name \in DOMAIN maps'[cur'] :
                            f \notin mentioned(maps'[cur'][name])]_vars

\* the configurations of the projects of a workspace, as makeWorkspaceAsync
\* had them when it made the exclude glob
configsOf(workspace) ==
    [i \in 1..Len(workspace.order) |->
        tsConfigJsonWithPath(workspace.order[i],
                             workspace.tsProjectByPath[workspace.order[i]].tsConfigJson)]

\* checkChangedFileAndGetWorkspace refuses the path as being in a
\* dependency or build-output directory
rejectedAsExcluded(uriPath) ==
    LET checkResult == checkChangedFileAndGetWorkspace(maps[cur], uriPath)
    IN  ~checkResult.ok /\ checkResult.err = "skipped"

\* C40: for every file of a folder that has a workspace installed, the test
\* applied to its events refuses the file as being in a dependency or
\* build-output directory exactly when the exclude glob of the full scan of
\* the same projects leaves the file out
C40_EventExclusionAgreesWithScan ==
    \A name \in DOMAIN maps[cur] : \A f \in AllFiles :
        (/\ isTsFile(f)
         /\ getWorkspaceFolderFromUri(f) # Null
         /\ getWorkspaceFolderFromUri(f) = maps[cur][name].workspaceFolder
         /\ folderName(getWorkspaceFolderFromUri(f)) = name) =>
            (rejectedAsExcluded(f)
                <=> globExcluded(maps[cur][name].workspaceFolder,
                                 configsOf(maps[cur][name]), f))

====
